---- MODULE Spec2Model ----
(***************************************************************************)
(* Accessibility-tree capture of screenenv's desktop servers:              *)
(*   UbuntuXfce4Server (docker/desktop/ubuntu_xfce4/server.py) and         *)
(*   DesktopServer     (docker/desktop/server.py).                         *)
(* One call of get_accessibility_tree walks the native UI graph with a     *)
(* pool of worker threads and returns one document.                        *)
(*                                                                         *)
(* DesktopServer's methods name the namespace maps of its class body       *)
(* (server.py lines 312-348) without self; the model reads these names as  *)
(* bound to those maps, so that the walks of DesktopServer run.  The       *)
(* version of LibreOffice is taken to be installed and readable.           *)
(* Each ThreadPoolExecutor is taken to have a thread for each of the few   *)
(* futures submitted to it.                                                *)
(***************************************************************************)
EXTENDS Integers, Sequences, FiniteSets, TLC

\* ------------------------------------------------------------ constants
\* Ceilings of the traversal, as the servers set them.
MAX_DEPTH == 50
MAX_WIDTH == 1024
\* Grid scan of a spreadsheet table: the row limit and the two cut-offs.
MAX_ROW == 1048576
SCAN_GIVE_UP == 500

\* ------------------------------------------------------------ bounds
\* Number of captures taken one after the other over the same UI state.
MaxCaptures == 2
\* Number of native handles whose queries raise.
MaxFail == 1
\* Length of the chain of nested handles of the "deep" desktop.
ChainLen == 52
\* Children of the wide node of the "wide" desktop beyond MAX_WIDTH.
WideExtra == 1
\* Showing rows and columns of the spreadsheet of the "grid" desktop.
GridRows == 41
GridCols == 26
\* Number of calls of the getters of one ScreenRemoteEnv.
MaxCalls == 2
\* Rows and columns of the window of the late spreadsheet.
LateSide == 60
\* Greatest length of a role name.
MaxRoleLen == 3
\* Greatest timeout and interval of _wait_and_verify, in ticks of the clock,
\* greatest length of the changing part of what a command and its predicate
\* do, and greatest number of attempts followed.
MaxTimeout == 3
MaxInterval == 2
MaxScript == 2
MaxAttempts == 8
\* Number of recording requests one server answers.
MaxRequests == 4
\* Number of calls made on one Sandbox.
MaxSandboxCalls == 2
\* Number of requests the other handlers answer.
MaxHandled == 2

\* ------------------------------------------------------------ native UI
\* A native handle is an integer; DESKTOP is the root handle.  The cells of
\* a spreadsheet table are its children node[idx]; their handles are
\* computed from the flat index idx.
DESKTOP == 0
CellHandle(idx) == 1000000 + idx

Min(a, b) == IF a < b THEN a ELSE b

\* The native UI states the model explores.  top: the children of the
\* desktop (applications / top-level windows) in native enumeration order;
\* ch: the children of each handle in native enumeration order; role, name:
\* what getRoleName() and .name answer; showing: the cells <<row, column>>
\* of the table whose state set holds STATE_SHOWING; version: the installed
\* LibreOffice version; mayfail: the handles whose queries may raise.
\* Where given, states are the states a handle is in (by default enabled,
\* visible and showing), ifaces the interfaces it supports (by default
\* all), text the characters of its text (by default none).
DesktopNames == {"buttons", "shared", "twotops", "cycle", "wide", "deep", "grid",
                 "sheet", "scrolled", "blank", "late", "widgets", "mail", "notes"}

Buttons ==
  [top |-> <<1>>,
   ch |-> (1 :> <<2>>) @@ (2 :> <<3, 4, 5>>),
   role |-> (1 :> "application") @@ (2 :> "frame") @@ (3 :> "push button")
            @@ (4 :> "push button") @@ (5 :> "push button"),
   name |-> (1 :> "app") @@ (2 :> "Dialog") @@ (3 :> "OK") @@ (4 :> "Cancel")
            @@ (5 :> "Help"),
   states |-> (4 :> {"enabled", "visible"}) @@ (5 :> {"enabled", "showing"}),
   ifaces |-> (3 :> {"component", "action"}) @@ (4 :> {"component", "action"})
              @@ (5 :> {"component", "action"}),
   showing |-> {}, version |-> <<7, 3>>, mayfail |-> {1, 4}]

\* Two sibling panels hold the same label.
SharedChild ==
  [top |-> <<1>>,
   ch |-> (1 :> <<2, 3>>) @@ (2 :> <<4>>) @@ (3 :> <<4>>),
   role |-> (1 :> "application") @@ (2 :> "panel") @@ (3 :> "panel") @@ (4 :> "label"),
   name |-> (1 :> "app"),
   showing |-> {}, version |-> <<7, 3>>, mayfail |-> {}]

\* Two applications hold the same frame.
TwoTops ==
  [top |-> <<1, 2>>,
   ch |-> (1 :> <<3>>) @@ (2 :> <<3>>),
   role |-> (1 :> "application") @@ (2 :> "application") @@ (3 :> "frame"),
   name |-> (1 :> "Thunderbird") @@ (2 :> "app"),
   showing |-> {}, version |-> <<7, 3>>, mayfail |-> {2}]

\* A frame lists its own application among its children.
Cycle ==
  [top |-> <<1>>,
   ch |-> (1 :> <<2>>) @@ (2 :> <<1, 3>>),
   role |-> (1 :> "application") @@ (2 :> "frame") @@ (3 :> "label"),
   name |-> (1 :> "app"),
   showing |-> {}, version |-> <<7, 3>>, mayfail |-> {}]

\* A list of more than MAX_WIDTH items.
Wide ==
  [top |-> <<1>>,
   ch |-> (1 :> <<2>>) @@ (2 :> [i \in 1..(MAX_WIDTH + WideExtra) |-> 100 + i]),
   role |-> (1 :> "application") @@ (2 :> "list"),
   name |-> (1 :> "app"),
   showing |-> {}, version |-> <<7, 3>>, mayfail |-> {103}]

\* A chain of nested handles longer than MAX_DEPTH.
Deep ==
  [top |-> <<1>>,
   ch |-> [h \in 1..(ChainLen - 1) |-> <<h + 1>>],
   role |-> (1 :> "application"),
   name |-> (1 :> "app"),
   showing |-> {}, version |-> <<7, 3>>, mayfail |-> {}]

\* A spreadsheet whose window shows GridRows x GridCols cells.
Grid ==
  [top |-> <<1>>,
   ch |-> (1 :> <<2>>) @@ (2 :> <<3>>) @@ (3 :> <<4>>),
   role |-> (1 :> "application") @@ (2 :> "frame")
            @@ (3 :> "document spreadsheet") @@ (4 :> "table"),
   name |-> (1 :> "soffice"),
   showing |-> (0..(GridRows - 1)) \X (0..(GridCols - 1)),
   version |-> <<7, 3>>, mayfail |-> {}]

\* Scenario B of the specification: 10 rows of 5 cells from the first cell
\* on, in a LibreOffice of 16384 columns.
Sheet ==
  [top |-> <<1>>,
   ch |-> (1 :> <<2>>) @@ (2 :> <<3>>) @@ (3 :> <<4>>),
   role |-> (1 :> "application") @@ (2 :> "frame")
            @@ (3 :> "document spreadsheet") @@ (4 :> "table"),
   name |-> (1 :> "soffice"),
   showing |-> (0..9) \X (0..4),
   version |-> <<24, 2>>, mayfail |-> {}]

\* A spreadsheet scrolled away from its first cell, the window's left edge
\* not the same in every row.
Scrolled ==
  [top |-> <<1>>,
   ch |-> (1 :> <<2>>) @@ (2 :> <<3>>) @@ (3 :> <<4>>),
   role |-> (1 :> "application") @@ (2 :> "frame")
            @@ (3 :> "document spreadsheet") @@ (4 :> "table"),
   name |-> (1 :> "soffice"),
   showing |-> ({2} \X (3..6)) \cup ({3} \X (2..6)) \cup ({4} \X (3..4))
               \cup ({5} \X (4..6)),
   version |-> <<7, 3>>, mayfail |-> {}]

\* A spreadsheet none of whose cells is showing.
Blank ==
  [top |-> <<1>>,
   ch |-> (1 :> <<2>>) @@ (2 :> <<3>>) @@ (3 :> <<4>>),
   role |-> (1 :> "application") @@ (2 :> "frame")
            @@ (3 :> "document spreadsheet") @@ (4 :> "table"),
   name |-> (1 :> "soffice"),
   showing |-> {},
   version |-> <<7, 3>>, mayfail |-> {}]

\* A spreadsheet scrolled far down and right: its window of LateSide x
\* LateSide showing cells begins in row SCAN_GIVE_UP, one column before
\* column SCAN_GIVE_UP.
Late ==
  [top |-> <<1>>,
   ch |-> (1 :> <<2>>) @@ (2 :> <<3>>) @@ (3 :> <<4>>),
   role |-> (1 :> "application") @@ (2 :> "frame")
            @@ (3 :> "document spreadsheet") @@ (4 :> "table"),
   name |-> (1 :> "soffice"),
   showing |-> (SCAN_GIVE_UP..(SCAN_GIVE_UP + LateSide - 1))
               \X ((SCAN_GIVE_UP - 1)..(SCAN_GIVE_UP + LateSide - 2)),
   version |-> <<7, 3>>, mayfail |-> {}]

\* A spreadsheet document inside the application named Thunderbird: its
\* table shows 2 x 2 cells and has no other children.
Mail ==
  [top |-> <<1>>,
   ch |-> (1 :> <<2>>) @@ (2 :> <<3>>) @@ (3 :> <<4>>),
   role |-> (1 :> "application") @@ (2 :> "frame")
            @@ (3 :> "document spreadsheet") @@ (4 :> "table"),
   name |-> (1 :> "Thunderbird"),
   showing |-> (0..1) \X (0..1),
   version |-> <<7, 3>>, mayfail |-> {}]

\* A frame with two labels: the text of one holds an object replacement
\* character, the text of the other is one replacement character.
Notes ==
  [top |-> <<1>>,
   ch |-> (1 :> <<2>>) @@ (2 :> <<3, 4>>),
   role |-> (1 :> "application") @@ (2 :> "frame"),
   name |-> (1 :> "app"),
   text |-> (3 :> <<"a", "uFFFC", "b">>) @@ (4 :> <<"uFFFD">>),
   showing |-> {}, version |-> <<7, 3>>, mayfail |-> {}]

\* The optional interfaces of a node, and the sets of them by number: the
\* i-th interface is in the n-th set when bit i of n is set.
Optional == {"text", "image", "selection", "value", "action"}
OptionalNo == <<"text", "image", "selection", "value", "action">>
OptionalSet(n) == {OptionalNo[i] : i \in {j \in 1..5 : (n \div (2 ^ (j - 1))) % 2 = 1}}

\* A frame with one widget for each set of optional interfaces a node can
\* support (widget 10 + n supports the n-th set), each widget with a label
\* below it; widget 20 is hidden.
Widgets ==
  [top |-> <<1>>,
   ch |-> (1 :> <<2>>) @@ (2 :> [k \in 1..32 |-> 9 + k]) @@ [h \in 10..41 |-> <<h + 40>>],
   role |-> (1 :> "application") @@ (2 :> "frame") @@ [h \in 10..41 |-> "panel"],
   name |-> (1 :> "app"),
   ifaces |-> [h \in 10..41 |-> OptionalSet(h - 10) \cup {"component"}],
   states |-> (20 :> {"enabled"}),
   text |-> [h \in 10..41 |-> <<"a", "uFFFC", "b">>],
   showing |-> {}, version |-> <<7, 3>>, mayfail |-> {}]

Desktop(d) ==
  CASE d = "buttons" -> Buttons
    [] d = "widgets" -> Widgets
    [] d = "sheet" -> Sheet
    [] d = "scrolled" -> Scrolled
    [] d = "blank" -> Blank
    [] d = "late" -> Late
    [] d = "mail" -> Mail
    [] d = "notes" -> Notes
    [] d = "shared" -> SharedChild
    [] d = "twotops" -> TwoTops
    [] d = "cycle" -> Cycle
    [] d = "wide" -> Wide
    [] d = "deep" -> Deep
    [] d = "grid" -> Grid

\* A wide node or a spreadsheet is walked by one thread on Linux; the
\* Windows and macOS walks start one task per child, and are explored on
\* the desktops whose nodes have few children.
OsOf(d) == IF d \in {"wide", "grid", "sheet", "scrolled", "blank", "late", "widgets"}
             THEN {"Linux"}
           ELSE {"Linux", "Windows", "Darwin", "Other"}

Children(ui, h) == IF h \in DOMAIN Desktop(ui).ch THEN Desktop(ui).ch[h] ELSE <<>>
RoleName(ui, h) == IF h \in DOMAIN Desktop(ui).role THEN Desktop(ui).role[h]
                   ELSE IF h >= CellHandle(0) THEN "table cell" ELSE "label"
NodeName(ui, h) == IF h \in DOMAIN Desktop(ui).name THEN Desktop(ui).name[h] ELSE ""
Showing(ui, r, c) == <<r, c>> \in Desktop(ui).showing

Given(ui, field, h) == field \in DOMAIN Desktop(ui) /\ h \in DOMAIN Desktop(ui)[field]
StatesOf(ui, h) == IF Given(ui, "states", h) THEN Desktop(ui).states[h]
                   ELSE {"enabled", "visible", "showing"}
Supports(ui, h) == IF Given(ui, "ifaces", h) THEN Desktop(ui).ifaces[h]
                   ELSE Optional \cup {"component"}
TextOf(ui, h) == IF Given(ui, "text", h) THEN Desktop(ui).text[h] ELSE <<>>
\* The extents of a node on the screen: x, y, width, height.
Extents(ui, h) == <<h, 2 * h, 30, 10>>

\* ------------------------------------------------------------ results
\* An element tree is a function from paths to native handles: the path
\* <<>> is the element itself, Append(p, i) the i-th child element of the
\* element at p.  A call of a node constructor gives an element tree, None,
\* or an exception.
Leaf(h) == (<<>> :> h)
Elem(doc) == [t |-> "elem", doc |-> doc]
NoneV == [t |-> "none", doc |-> <<>>]
Raised == [t |-> "exc", doc |-> <<>>]
Pending == [t |-> "pending", doc |-> <<>>]

\* The element for handle h with the element trees subs appended, in order.
Graft(h, subs) ==
  [p \in {<<>>} \cup UNION {{<<j>> \o q : q \in DOMAIN subs[j].doc} : j \in 1..Len(subs)}
     |-> IF p = <<>> THEN h ELSE subs[Head(p)].doc[Tail(p)]]

NoFlag == "None"
NoVersion == <<>>

\* Python's tuple order on version tuples of two components.
TupleLess(a, b) == a[1] < b[1] \/ (a[1] = b[1] /\ a[2] < b[2])
MaximumColumn(ver) == IF TupleLess(ver, <<7, 4>>) THEN 1024 ELSE 16384

\* The flag a node hands to its children.
NodeFlag(ui, h, flag) ==
  IF flag # NoFlag THEN flag
  ELSE IF RoleName(ui, h) = "application" /\ NodeName(ui, h) = "Thunderbird"
         THEN "thunderbird"
  ELSE IF RoleName(ui, h) = "document spreadsheet" THEN "calc"
  ELSE NoFlag

\* ------------------------------------------------------------ Linux walk
\* _create_atspi_node(node, depth, flag): one thread walks the whole
\* subtree.  A bad handle raises while it is described (node.name,
\* getState(), get_attributes() are outside every try).  The walk is
\* written level by level: the children a node keeps are decided by which
\* of its children's calls raise, and a call raises only while it describes
\* its node or scans its grid.
RECURSIVE ScanColumns(_, _, _, _, _, _)
RECURSIVE ScanRowsFrom(_, _, _, _, _)

\* if flag == "calc" and node_role_name == "table"
IsGrid(ui, h, flag) == NodeFlag(ui, h, flag) = "calc" /\ RoleName(ui, h) = "table"

\* ColumnStep with column_base assigned at every showing cell instead of at
\* the first one only.
ColumnStepRebase(ui, fails, ver, r, st) ==
  LET maxcol  == MaximumColumn(ver)
      cell    == CellHandle(r * maxcol + st.clm)
      more    == st.clm + 1 < maxcol
      queried == [st EXCEPT !.checks = @ + 1]
      onward  == [queried EXCEPT !.clm = IF more THEN @ + 1 ELSE @, !.left = ~more]
  IN  IF cell \in fails
        THEN [queried EXCEPT !.exc = TRUE, !.left = TRUE]
      ELSE IF Showing(ui, r, st.clm)
        THEN [onward EXCEPT !.acc = Append(@, cell), !.cb = st.clm, !.fs = TRUE]
      ELSE IF (st.fs /\ st.cb # -1) \/ st.clm >= SCAN_GIVE_UP
        THEN [queried EXCEPT !.left = TRUE]
      ELSE onward

\* ColumnStep breaking at every cell that is not showing.
ColumnStepHidden(ui, fails, ver, r, st) ==
  LET maxcol  == MaximumColumn(ver)
      cell    == CellHandle(r * maxcol + st.clm)
      more    == st.clm + 1 < maxcol
      queried == [st EXCEPT !.checks = @ + 1]
      onward  == [queried EXCEPT !.clm = IF more THEN @ + 1 ELSE @, !.left = ~more]
  IN  IF cell \in fails
        THEN [queried EXCEPT !.exc = TRUE, !.left = TRUE]
      ELSE IF Showing(ui, r, st.clm)
        THEN [onward EXCEPT !.acc = Append(@, cell),
                            !.cb = IF st.fs THEN @ ELSE st.clm,
                            !.fs = TRUE]
      ELSE [queried EXCEPT !.left = TRUE]

\* ColumnStep with column_base set to the first column instead of the
\* column of the first showing cell.
ColumnStepOrigin(ui, fails, ver, r, st) ==
  LET maxcol  == MaximumColumn(ver)
      cell    == CellHandle(r * maxcol + st.clm)
      more    == st.clm + 1 < maxcol
      queried == [st EXCEPT !.checks = @ + 1]
      onward  == [queried EXCEPT !.clm = IF more THEN @ + 1 ELSE @, !.left = ~more]
  IN  IF cell \in fails
        THEN [queried EXCEPT !.exc = TRUE, !.left = TRUE]
      ELSE IF Showing(ui, r, st.clm)
        THEN [onward EXCEPT !.acc = Append(@, cell),
                            !.cb = IF st.fs THEN @ ELSE 0,
                            !.fs = TRUE]
      ELSE IF (st.fs /\ st.cb # -1) \/ st.clm >= SCAN_GIVE_UP
        THEN [queried EXCEPT !.left = TRUE]
      ELSE onward

\* One pass of the body of the inner loop of the grid scan, at column
\* st.clm of row r.  st holds the loop's variables: clm, first_showing (fs),
\* column_base (cb, -1 for None), the handles of the cells appended (acc),
\* whether a query of a cell raised (exc), the number of cells queried
\* (checks), and whether the loop is left: by break, by an exception, or
\* with its range used up (clm then keeps its last value).
ColumnStep(ui, fails, ver, r, st) ==
  LET maxcol  == MaximumColumn(ver)
      cell    == CellHandle(r * maxcol + st.clm)
      more    == st.clm + 1 < maxcol
      queried == [st EXCEPT !.checks = @ + 1]
      onward  == [queried EXCEPT !.clm = IF more THEN @ + 1 ELSE @, !.left = ~more]
  IN  IF cell \in fails
        THEN [queried EXCEPT !.exc = TRUE, !.left = TRUE]
      ELSE IF Showing(ui, r, st.clm)
        THEN [onward EXCEPT !.acc = Append(@, cell),
                            !.cb = IF st.fs THEN @ ELSE st.clm,
                            !.fs = TRUE]
      ELSE IF (st.fs /\ st.cb # -1) \/ st.clm >= SCAN_GIVE_UP
        THEN [queried EXCEPT !.left = TRUE]
      ELSE onward

\* At most k passes of the inner loop from st on (the passes are split in
\* halves, which keeps the nesting of the evaluation shallow; the state
\* after the first half is bound as mid, so that it is computed once).
ScanColumns(ui, fails, ver, r, st, k) ==
  IF st.left \/ k = 0 THEN st
  ELSE IF k = 1 THEN ColumnStep(ui, fails, ver, r, st)
  ELSE CHOOSE out \in {ScanColumns(ui, fails, ver, r, mid, k - (k \div 2)) :
                          mid \in {ScanColumns(ui, fails, ver, r, st, k \div 2)}} : TRUE

\* for clm in range(column_base or 0, MAXIMUN_COLUMN), entered at column clm
\* of row r with the given values of the variables of the scan.
ScanRow(ui, fails, ver, r, clm, fs, cb, acc, nchecks) ==
  ScanColumns(ui, fails, ver, r,
              [clm |-> clm, fs |-> fs, cb |-> cb, acc |-> acc, exc |-> FALSE,
               checks |-> nchecks, left |-> FALSE],
              MaximumColumn(ver) - clm)

\* RowStep leaving the outer loop as soon as a showing cell has been found,
\* whether or not the row just scanned gave one.
RowStepFound(ui, fails, ver, st) ==
  LET from == IF st.cb = -1 THEN 0 ELSE st.cb
      more == st.r + 1 < MAX_ROW
      After(row) ==
        LET stop == \/ row.exc
                    \/ row.fs
                    \/ ~row.fs /\ st.r >= SCAN_GIVE_UP
        IN  [r |-> IF stop \/ ~more THEN st.r ELSE st.r + 1,
             clm |-> row.clm, fs |-> row.fs, cb |-> row.cb, acc |-> row.acc,
             exc |-> row.exc, checks |-> row.checks, left |-> stop \/ ~more,
             rows |-> Append(st.rows, [from |-> from, clm |-> row.clm, fs |-> row.fs,
                                       cb |-> row.cb, n |-> Len(row.acc),
                                       checks |-> row.checks])]
  IN  CHOOSE out \in {After(row) : row \in {ScanRow(ui, fails, ver, st.r, from, st.fs,
                                                    st.cb, st.acc, st.checks)}} : TRUE

\* One pass of the body of the outer loop, at row st.r.  rows records, for
\* each row scanned, the column the row was entered at and the values of
\* the variables when its inner loop was left.
RowStep(ui, fails, ver, st) ==
  LET from == IF st.cb = -1 THEN 0 ELSE st.cb
      more == st.r + 1 < MAX_ROW
      After(row) ==
        LET stop == \/ row.exc
                    \/ row.fs /\ row.clm = row.cb
                    \/ ~row.fs /\ st.r >= SCAN_GIVE_UP
        IN  [r |-> IF stop \/ ~more THEN st.r ELSE st.r + 1,
             clm |-> row.clm, fs |-> row.fs, cb |-> row.cb, acc |-> row.acc,
             exc |-> row.exc, checks |-> row.checks, left |-> stop \/ ~more,
             rows |-> Append(st.rows, [from |-> from, clm |-> row.clm, fs |-> row.fs,
                                       cb |-> row.cb, n |-> Len(row.acc),
                                       checks |-> row.checks])]
  IN  CHOOSE out \in {After(row) : row \in {ScanRow(ui, fails, ver, st.r, from, st.fs,
                                                    st.cb, st.acc, st.checks)}} : TRUE

\* At most k passes of the outer loop from st on.
ScanRowsFrom(ui, fails, ver, st, k) ==
  IF st.left \/ k = 0 THEN st
  ELSE IF k = 1 THEN RowStep(ui, fails, ver, st)
  ELSE CHOOSE out \in {ScanRowsFrom(ui, fails, ver, mid, k - (k \div 2)) :
                          mid \in {ScanRowsFrom(ui, fails, ver, st, k \div 2)}} : TRUE

\* for r in range(MAX_ROW), entered at row r.
ScanRows(ui, fails, ver, r, fs, cb, acc, nchecks) ==
  ScanRowsFrom(ui, fails, ver,
               [r |-> r, clm |-> 0, fs |-> fs, cb |-> cb, acc |-> acc, exc |-> FALSE,
                checks |-> nchecks, left |-> FALSE, rows |-> <<>>],
               MAX_ROW - r)

GridScan(ui, fails, ver) == ScanRows(ui, fails, ver, 0, FALSE, -1, <<>>, 0)

\* text.replace("\ufffc", "").replace("\ufffd", "")
Replaced(text) == SelectSeq(text, LAMBDA c : c \notin {"uFFFC", "uFFFD"})

\* The attributes of one optional interface (image, selection, value,
\* action) of node h: set where the query of the interface does not raise
\* NotImplementedError.  A key is a namespace and a local name.
Attribute(key, value) == (key :> value)
NoAttribute == [k \in {} |-> ""]
OptionalAttributes(ui, h, iface) ==
  IF iface \notin Supports(ui, h) THEN NoAttribute
  ELSE CASE iface = "image" -> Attribute(<<"", "image">>, "true")
         [] iface = "selection" -> Attribute(<<"", "selection">>, "true")
         [] iface = "value" -> [k \in {"val"} \X {"value", "min", "max", "step"} |-> "0"]
         [] iface = "action" -> [k \in {"act"} \X {"click_desc", "click_kb"} |-> ""]

\* AtspiDescribe with the query of an optional interface outside its try:
\* NotImplementedError leaves the constructor.
AtspiDescribeUnguarded(ui, fails, h) ==
  [exc |-> h \in fails \/ ~(Optional \subseteq Supports(ui, h)),
   attrib |-> Attribute(<<"", "name">>, NodeName(ui, h)),
   text |-> IF "text" \in Supports(ui, h) THEN Replaced(TextOf(ui, h)) ELSE <<>>]

\* _create_atspi_node up to the construction of the element: whether a
\* query of the node raises (name, states and attributes are read outside
\* every try), the attribute dictionary, and the text of the element.
AtspiDescribe(ui, fails, h) ==
  LET st == StatesOf(ui, h)
      geometry ==
        IF {"visible", "showing"} \subseteq st /\ "component" \in Supports(ui, h)
          THEN Attribute(<<"cp", "screencoord">>, SubSeq(Extents(ui, h), 1, 2))
               @@ Attribute(<<"cp", "size">>, SubSeq(Extents(ui, h), 3, 4))
        ELSE NoAttribute
  IN  [exc |-> h \in fails,
       attrib |-> Attribute(<<"", "name">>, NodeName(ui, h))
                  @@ [k \in {"st"} \X st |-> "true"]
                  @@ geometry
                  @@ OptionalAttributes(ui, h, "image")
                  @@ OptionalAttributes(ui, h, "selection")
                  @@ OptionalAttributes(ui, h, "value")
                  @@ OptionalAttributes(ui, h, "action"),
       text |-> IF "text" \in Supports(ui, h) THEN Replaced(TextOf(ui, h)) ELSE <<>>]

\* _create_pywinauto_node up to the construction of the element.  The
\* states are what is_enabled() and is_visible() answer (of the states the
\* constructor asks for, these two are modelled), written "true" or
\* "false"; the rectangle is stored whenever rectangle() does not raise.
PywinautoDescribe(ui, fails, h) ==
  [exc |-> h \in fails,
   attrib |-> Attribute(<<"", "name">>, NodeName(ui, h))
              @@ [k \in {"st"} \X {"enabled", "visible"} |->
                    IF k[2] \in StatesOf(ui, h) THEN "true" ELSE "false"]
              @@ (IF "component" \in Supports(ui, h)
                    THEN Attribute(<<"cp", "screencoord">>, SubSeq(Extents(ui, h), 1, 2))
                         @@ Attribute(<<"cp", "size">>, SubSeq(Extents(ui, h), 3, 4))
                  ELSE NoAttribute)
              @@ (IF "selection" \in Supports(ui, h)
                    THEN Attribute(<<"", "selection">>, "true") ELSE NoAttribute),
   text |-> TextOf(ui, h)]

\* _create_axui_node up to the construction of the element, for a node
\* whose frame meets the window of its application.  Of the reserved keys
\* AXEnabled and AXFrame are modelled: the frame is stored whenever the
\* node has the attribute AXFrame with x, y, w and h.
AxuiDescribe(ui, fails, h) ==
  [exc |-> h \in fails,
   attrib |-> Attribute(<<"st", "AXEnabled">>,
                        IF "enabled" \in StatesOf(ui, h) THEN "True" ELSE "False")
              @@ (IF "component" \in Supports(ui, h)
                    THEN Attribute(<<"cp", "screencoord">>, SubSeq(Extents(ui, h), 1, 2))
                         @@ Attribute(<<"cp", "size">>, SubSeq(Extents(ui, h), 3, 4))
                  ELSE NoAttribute),
   text |-> TextOf(ui, h)]

\* if len(text) > 0: xml_node.text = text -- the body of the element, if any.
Body(text) == IF Len(text) > 0 THEN <<text>> ELSE <<>>

\* The description the constructor of platform os makes of node h.
Describe(os, ui, fails, h) ==
  CASE os = "Linux" -> AtspiDescribe(ui, fails, h)
    [] os = "Windows" -> PywinautoDescribe(ui, fails, h)
    [] os = "Darwin" -> AxuiDescribe(ui, fails, h)

\* ------------------------------------------------------------ element tags
\* A role name is a sequence of characters.  Of each class of characters
\* Python tells apart there is one: a lower-case letter, an upper-case
\* letter, a digit, the space, the underscore and another sign.
RoleAlphabet == {"a", "B", "7", " ", "_", "/"}
RoleNames == UNION {[1..n -> RoleAlphabet] : n \in 0..MaxRoleLen}

Lowers == {"a", "b", "e", "g", "k", "l", "n", "o", "r", "t", "u", "w"}
IsAlpha(c) == c \in Lowers \cup {"B"}                \* str.isalpha
IsAlnum(c) == IsAlpha(c) \/ c = "7"                  \* str.isalnum
IsIdentifier(c) == IsAlpha(c) \/ c = "_"             \* str.isidentifier
Lower(s) == [i \in DOMAIN s |-> IF s[i] = "B" THEN "b" ELSE s[i]]    \* str.lower
Replace(s, old, new) == [i \in DOMAIN s |-> IF s[i] = old THEN new ELSE s[i]]

RECURSIVE Strip(_)
\* str.strip
Strip(s) ==
  IF s = <<>> THEN s
  ELSE IF Head(s) = " " THEN Strip(Tail(s))
  ELSE IF s[Len(s)] = " " THEN Strip(SubSeq(s, 1, Len(s) - 1))
  ELSE s

Unknown == <<"u", "n", "k", "n", "o", "w", "n">>
UnknownRole == Unknown \o <<"_", "r", "o", "l", "e">>
TagPrefix == <<"t", "a", "g">>

\* raw_role_name = node.getRoleName().strip()
\* node_role_name = (raw_role_name or "unknown").replace(" ", "-")
AtspiTag(role) ==
  Replace(IF Strip(role) = <<>> THEN Unknown ELSE Strip(role), " ", "-")

\* node.class_name().lower().replace(" ", "-"), every character that is
\* neither an identifier character, nor "-", nor alphanumeric made "-";
\* "unknown" if blank; "tag" put before a first character that is no letter.
PywinautoTag(role) ==
  LET hyphened == Replace(Lower(role), " ", "-")
      mapped   == [i \in DOMAIN hyphened |->
                     IF IsIdentifier(hyphened[i]) \/ hyphened[i] = "-" \/ IsAlnum(hyphened[i])
                       THEN hyphened[i] ELSE "-"]
      named    == IF Strip(mapped) = <<>> THEN Unknown ELSE mapped
  IN  IF ~IsAlpha(named[1]) THEN TagPrefix \o named ELSE named

\* role.lower().replace(" ", "_") if role else "unknown_role"
AxuiTag(role) ==
  IF role = <<>> THEN UnknownRole ELSE Replace(Lower(role), " ", "_")

\* lxml.etree.Element(tag): a tag that is no XML name raises ValueError.
ValidName(t) ==
  /\ t # <<>>
  /\ IsAlpha(t[1]) \/ t[1] = "_"
  /\ \A i \in DOMAIN t : IsAlnum(t[i]) \/ t[i] \in {"-", "_"}
Element(t) == IF ValidName(t) THEN [raised |-> FALSE, name |-> t]
              ELSE [raised |-> TRUE, name |-> <<>>]

\* The spreadsheets explored.  The cells of a table do not change and none
\* of their queries raises, so its scan by the installed version always
\* gives the same: scanned holds it from the start on.
GridNames == {"grid", "sheet", "scrolled", "blank", "late"}
VARIABLE scanned
NoScan == [r |-> 0, clm |-> 0, fs |-> FALSE, cb |-> -1, acc |-> <<>>, exc |-> FALSE,
           checks |-> 0, left |-> FALSE, rows |-> <<>>]
ScanOf(d) == IF d \in GridNames THEN GridScan(d, {}, Desktop(d).version) ELSE NoScan
TableScan(ui, fails, ver) ==
  IF ui \in GridNames /\ ver = Desktop(ui).version /\ (\A h \in fails : h < CellHandle(0))
    THEN scanned
  ELSE GridScan(ui, fails, ver)

\* Whether _create_atspi_node(h, depth, flag) raises: while it describes
\* the node, or out of the grid scan (which is outside the try).
AtspiRaises(ui, fails, ver, h, depth, flag) ==
  \/ AtspiDescribe(ui, fails, h).exc
  \/ depth # MAX_DEPTH /\ IsGrid(ui, h, flag) /\ TableScan(ui, fails, ver).exc

\* for i, ch in enumerate(node): stop at i == MAX_WIDTH; an exception of a
\* child leaves the loop (the try encloses the loop) and the element keeps
\* the children appended so far: the children before the first one that
\* raises, among the first MAX_WIDTH.
AtspiChildren(ui, fails, ver, h, depth, flag) ==
  LET kids    == Children(ui, h)
      n       == Min(Len(kids), MAX_WIDTH)
      raising == {i \in 1..n : AtspiRaises(ui, fails, ver, kids[i], depth + 1,
                                           NodeFlag(ui, h, flag))}
      stop    == IF raising = {} THEN n + 1
                 ELSE CHOOSE i \in raising : \A j \in raising : i <= j
  IN  SubSeq(kids, 1, stop - 1)

\* The handles of the child elements of the element of h, in order.
AtspiKept(ui, fails, ver, h, depth, flag) ==
  IF depth = MAX_DEPTH THEN <<>>
  ELSE IF IsGrid(ui, h, flag) THEN TableScan(ui, fails, ver).acc
  ELSE AtspiChildren(ui, fails, ver, h, depth, flag)

RECURSIVE AtspiWalk(_, _, _, _, _)
\* The element tree, one level more per step: frontier holds the elements
\* of the deepest level built, each with the arguments of its call.
AtspiWalk(ui, fails, ver, frontier, doc) ==
  IF frontier = {} THEN doc
  ELSE LET next == UNION {
                     LET kept == AtspiKept(ui, fails, ver, e.h, e.depth, e.flag)
                     IN  {[p |-> Append(e.p, i), h |-> kept[i], depth |-> e.depth + 1,
                           flag |-> NodeFlag(ui, e.h, e.flag)] : i \in 1..Len(kept)}
                     : e \in frontier}
           grown == [p \in DOMAIN doc \cup {e.p : e \in next} |->
                       IF p \in DOMAIN doc THEN doc[p]
                       ELSE (CHOOSE e \in next : e.p = p).h]
       IN  AtspiWalk(ui, fails, ver, next, grown)

AtspiNode(ui, fails, ver, h, depth, flag) ==
  IF AtspiRaises(ui, fails, ver, h, depth, flag) THEN Raised
  ELSE Elem(AtspiWalk(ui, fails, ver,
                      {[p |-> <<>>, h |-> h, depth |-> depth, flag |-> flag]}, Leaf(h)))

\* ------------------------------------------------------------ state
VARIABLES
  server,      \* "UbuntuXfce4Server" or "DesktopServer"
  os_name,     \* platform.system() of the host
  ui,          \* the native UI state (a name of DesktopNames), unchanged
  bad,         \* the handles whose native queries raise
  root_ok,     \* whether the root handle can be obtained
  libreoffice_version_tuple,   \* the server's field
  pc,          \* the request thread: "idle" or "running"
  tasks,       \* the futures of the running capture, by path from the root
  nodes,       \* the visited sets of the running capture, one per top-level task
  responses    \* what the captures so far returned, in order

\* The client's side, ScreenRemoteEnv (src/screenenv/screen_remote_env.py).
VARIABLES
  args,        \* the arguments its constructor is called with
  remote,      \* the ScreenRemoteEnv object: its fields, once constructed
  provider,    \* the provider of the emulator (the container)
  returned     \* what the getters called so far returned, in order

client == <<args, remote, provider, returned>>

\* The constructors on their own: the role name one node answers, and the
\* element made of it (none yet, or what lxml.etree.Element gave).
VARIABLES role, tag

\* One call of _wait_and_verify: its arguments, what the command and the
\* predicate do at each attempt (first, then forever), where the call
\* stands, elapsed, the attempts made and the value returned.
VARIABLE waiter

\* Recording.  app_state: the attributes of app.state that have been set,
\* recording_process among them (<<>> for None, <<pid>> for a Popen);
\* recording_process: the server's own field self.recording_process;
\* popen: the processes started, by pid; recording_file: whether the file at
\* recording_path exists; replies: the answers to the recording requests;
\* lifespan: "serving", or "shutdown" once the lifespan has been left.
VARIABLES app_state, recording_process, popen, recording_file, replies, lifespan
recording == <<app_state, recording_process, popen, recording_file, replies, lifespan>>

\* The other handlers of the server.  shell: the runs of execute_command, in
\* order, each with its command, the attempts made and how it ended;
\* handled: the requests answered, each with its arguments and its status.
VARIABLES shell, handled

\* The Sandbox client.  sandbox: the fields of the object; wire: the HTTP
\* requests sent, in order, each with its endpoint, its headers and the
\* status of its response (0 when the connection failed).
VARIABLES sandbox, wire
calls == <<shell, handled, sandbox, wire>>
helpers == <<role, tag, waiter, recording, calls>>
vars == <<server, os_name, ui, bad, root_ok, libreoffice_version_tuple, pc, tasks,
          nodes, responses, scanned, client, helpers>>
env == <<server, os_name, ui, bad, root_ok, scanned, client, helpers>>

\* A future: the handle and depth its constructor was called with, where
\* the worker stands, how many child futures it submitted, its outcome.
Task(h, depth, at) == [h |-> h, depth |-> depth, pc |-> at, n |-> 0, res |-> Pending]
KidPaths(p, n) == {Append(p, i) : i \in 1..n}
\* AllDone as wait(..., return_when=FIRST_COMPLETED) would have it.
AnyDone(p, n) == n = 0 \/ \E q \in KidPaths(p, n) : tasks[q].pc = "done"
AllDone(p, n) == \A q \in KidPaths(p, n) : tasks[q].pc = "done"
Finish(p, r) == [tasks EXCEPT ![p].pc = "done", ![p].res = r]

\* The orders in which as_completed can hand over n finished futures.
Orders(n) == {f \in [1..n -> 1..n] : \A i, j \in 1..n : f[i] = f[j] => i = j}
InOrder(p, n, f) == [i \in 1..n |-> tasks[Append(p, f[i])].res]

RECURSIVE SelectSeq2(_, _)
\* s without the entries of tag t.
SelectSeq2(s, t) ==
  IF s = <<>> THEN <<>>
  ELSE IF Head(s).t = t THEN SelectSeq2(Tail(s), t)
  ELSE <<Head(s)>> \o SelectSeq2(Tail(s), t)

RECURSIVE UpTo(_, _)
\* The entries of s before the first one of tag t.
UpTo(s, t) ==
  IF s = <<>> \/ Head(s).t = t THEN <<>> ELSE <<Head(s)>> \o UpTo(Tail(s), t)

HasTag(s, t) == \E i \in 1..Len(s) : s[i].t = t

Ok(doc) == [status |-> 200, at |-> doc]
Failure(code) == [status |-> code, at |-> <<>>]

\* No ScreenRemoteEnv: the servers are explored on their own.
NoRemote == [state |-> "none", headless |-> TRUE, session_password |-> "",
             vnc_port |-> <<>>, vnc_url |-> <<>>, browser |-> FALSE, error |-> <<>>]
NoProvider == [state |-> "none", ports |-> {}, host |-> 0, starts |-> 0, stops |-> 0,
               raised |-> <<>>]
DefaultArgs == [os_type |-> "Ubuntu", provider_type |-> "docker", headless |-> TRUE,
                novnc_server |-> TRUE, session_password |-> "True"]
NoClient ==
  /\ args = DefaultArgs
  /\ remote = NoRemote
  /\ provider = NoProvider
  /\ returned = <<>>

NoWaiter == [timeout |-> 0, interval |-> 0, first |-> <<>>, forever |-> "true",
             pc |-> "idle", elapsed |-> 0, attempts |-> 0, value |-> <<>>]

NoRecording ==
  /\ app_state = <<>>
  /\ recording_process = <<>>
  /\ popen = <<>>
  /\ recording_file = FALSE
  /\ replies = <<>>
  /\ lifespan = "serving"

NoSandbox == [state |-> "none", session_password |-> "", playwright |-> "None",
              ssl_cert_file |-> FALSE]
NoCalls ==
  /\ shell = <<>>
  /\ handled = <<>>
  /\ sandbox = NoSandbox
  /\ wire = <<>>

NoHelpers ==
  /\ role = <<>>
  /\ tag = <<>>
  /\ waiter = NoWaiter
  /\ NoRecording
  /\ NoCalls

Init ==
  /\ NoClient
  /\ NoHelpers
  /\ ui \in DesktopNames
  /\ scanned = ScanOf(ui)
  /\ server \in {"UbuntuXfce4Server", "DesktopServer"}
  /\ os_name \in OsOf(ui)
  /\ server = "UbuntuXfce4Server" => os_name = "Linux"
  /\ bad \in {b \in SUBSET Desktop(ui).mayfail : Cardinality(b) <= MaxFail}
  /\ root_ok \in BOOLEAN
  /\ libreoffice_version_tuple =
       IF server = "DesktopServer" /\ os_name = "Linux" THEN Desktop(ui).version
       ELSE NoVersion
  /\ pc = "idle"
  /\ tasks = <<>>
  /\ nodes = <<>>
  /\ responses = <<>>

\* ------------------------------------------------------------ the capture
\* The depth get_accessibility_tree passes for the children of the root.
EntryDepth(os) == IF os = "Darwin" THEN 0 ELSE 1

\* GetAccessibilityTree with an else branch that answers an empty document
\* instead of raising.
GetAccessibilityTreeEmpty ==
  /\ pc = "idle"
  /\ Len(responses) < MaxCaptures
  /\ IF os_name \notin {"Linux", "Windows", "Darwin"}
       THEN /\ responses' = Append(responses, Ok(Leaf(DESKTOP)))
            /\ UNCHANGED <<libreoffice_version_tuple, pc, tasks, nodes>>
     ELSE IF ~root_ok
       THEN /\ responses' = Append(responses, Failure(500))
            /\ libreoffice_version_tuple' =
                 IF server = "UbuntuXfce4Server" THEN Desktop(ui).version
                 ELSE libreoffice_version_tuple
            /\ UNCHANGED <<pc, tasks, nodes>>
     ELSE LET top == Desktop(ui).top
          IN  /\ tasks' = [p \in {<<i>> : i \in 1..Len(top)} |->
                             Task(top[p[1]], EntryDepth(os_name),
                                  IF os_name = "Linux" THEN "queued" ELSE "check")]
              /\ nodes' = [i \in 1..Len(top) |-> {}]
              /\ pc' = "running"
              /\ libreoffice_version_tuple' =
                   IF server = "UbuntuXfce4Server" THEN Desktop(ui).version
                   ELSE libreoffice_version_tuple
              /\ UNCHANGED responses
  /\ UNCHANGED env

\* get_accessibility_tree, up to the submission of one future per child of
\* the root.  An unsupported platform is answered 501 at once; a root that
\* cannot be obtained raises (500).
GetAccessibilityTree ==
  /\ pc = "idle"
  /\ Len(responses) < MaxCaptures
  /\ IF os_name \notin {"Linux", "Windows", "Darwin"}
       THEN /\ responses' = Append(responses, Failure(501))
            /\ UNCHANGED <<libreoffice_version_tuple, pc, tasks, nodes>>
     ELSE IF ~root_ok
       THEN /\ responses' = Append(responses, Failure(500))
            /\ libreoffice_version_tuple' =
                 IF server = "UbuntuXfce4Server" THEN Desktop(ui).version
                 ELSE libreoffice_version_tuple
            /\ UNCHANGED <<pc, tasks, nodes>>
     ELSE LET top == Desktop(ui).top
          IN  /\ tasks' = [p \in {<<i>> : i \in 1..Len(top)} |->
                             Task(top[p[1]], EntryDepth(os_name),
                                  IF os_name = "Linux" THEN "queued" ELSE "check")]
              /\ nodes' = [i \in 1..Len(top) |-> {}]
              /\ pc' = "running"
              /\ libreoffice_version_tuple' =
                   IF server = "UbuntuXfce4Server" THEN Desktop(ui).version
                   ELSE libreoffice_version_tuple
              /\ UNCHANGED responses
  /\ UNCHANGED env

\* A worker runs _create_atspi_node(app_node, 1) for one application.
AtspiWorker(p) ==
  /\ pc = "running" /\ os_name = "Linux"
  /\ p \in DOMAIN tasks /\ tasks[p].pc = "queued"
  /\ tasks' = Finish(p, AtspiNode(ui, bad, libreoffice_version_tuple, tasks[p].h,
                                  tasks[p].depth, NoFlag))
  /\ UNCHANGED <<env, libreoffice_version_tuple, pc, nodes, responses>>

\* _create_pywinauto_node / _create_axui_node, the membership test:
\*   if node in nodes: return
CycleCheck(p) ==
  IF tasks[p].h \in nodes[p[1]] THEN Finish(p, NoneV)
  ELSE [tasks EXCEPT ![p].pc = "add"]

PywinautoCheck(p) ==
  /\ pc = "running" /\ os_name = "Windows"
  /\ p \in DOMAIN tasks /\ tasks[p].pc = "check"
  /\ tasks' = CycleCheck(p)
  /\ UNCHANGED <<env, libreoffice_version_tuple, pc, nodes, responses>>

AxuiCheck(p) ==
  /\ pc = "running" /\ os_name = "Darwin"
  /\ p \in DOMAIN tasks /\ tasks[p].pc = "check"
  /\ tasks' = CycleCheck(p)
  /\ UNCHANGED <<env, libreoffice_version_tuple, pc, nodes, responses>>

\* The children _create_pywinauto_node submits: children[:MAX_WIDTH].
PywinautoChildren(h) ==
  SubSeq(Children(ui, h), 1, Min(Len(Children(ui, h)), MAX_WIDTH))
\* The children _create_axui_node submits: every child.
AxuiChildren(h) == Children(ui, h)

\* Expand without the test of the depth ceiling.
ExpandBelow(p, kids, waiting) ==
  LET t == tasks[p]
  IN  /\ nodes' = [nodes EXCEPT ![p[1]] = @ \cup {t.h}]
      /\ IF Describe(os_name, ui, bad, t.h).exc THEN tasks' = Finish(p, Raised)
         ELSE IF kids = <<>>
           THEN tasks' = Finish(p, Elem(Leaf(t.h)))
         ELSE tasks' = [q \in KidPaths(p, Len(kids)) |->
                          Task(kids[q[Len(q)]], t.depth + 1, "check")]
                       @@ [tasks EXCEPT ![p].pc = waiting, ![p].n = Len(kids)]

\* nodes.add(node), the description of the node, and the submission of one
\* future per child.  kids are the children to submit.
Expand(p, kids, waiting) ==
  LET t == tasks[p]
  IN  /\ nodes' = [nodes EXCEPT ![p[1]] = @ \cup {t.h}]
      /\ IF Describe(os_name, ui, bad, t.h).exc THEN tasks' = Finish(p, Raised)
         ELSE IF t.depth = MAX_DEPTH \/ kids = <<>>
           THEN tasks' = Finish(p, Elem(Leaf(t.h)))
         ELSE tasks' = [q \in KidPaths(p, Len(kids)) |->
                          Task(kids[q[Len(q)]], t.depth + 1, "check")]
                       @@ [tasks EXCEPT ![p].pc = waiting, ![p].n = Len(kids)]

PywinautoExpand(p) ==
  /\ pc = "running" /\ os_name = "Windows"
  /\ p \in DOMAIN tasks /\ tasks[p].pc = "add"
  /\ Expand(p, PywinautoChildren(tasks[p].h), "wait")
  /\ UNCHANGED <<env, libreoffice_version_tuple, pc, responses>>

AxuiExpand(p) ==
  /\ pc = "running" /\ os_name = "Darwin"
  /\ p \in DOMAIN tasks /\ tasks[p].pc = "add"
  /\ Expand(p, AxuiChildren(tasks[p].h), "wait")
  /\ UNCHANGED <<env, libreoffice_version_tuple, pc, responses>>

\* xml_node.extend([future.result() for future in as_completed(...)]) inside
\* try: an exception of any child leaves the list unbuilt and the element
\* without children; extend() appends up to the first None and raises there.
PywinautoAppend(results) ==
  IF HasTag(results, "exc") THEN <<>> ELSE UpTo(results, "none")

\* for future in as_completed(...): result = future.result();
\*   if result is not None: xml_node.append(result)         inside try.
AxuiAppend(results) == SelectSeq2(UpTo(results, "exc"), "none")

\* The worker has left the with block of its executor: every child future
\* is done.  as_completed hands them over in an order of its own.
PywinautoJoin(p) ==
  /\ pc = "running" /\ os_name = "Windows"
  /\ p \in DOMAIN tasks /\ tasks[p].pc = "wait"
  /\ AllDone(p, tasks[p].n)
  /\ \E f \in Orders(tasks[p].n) :
       tasks' = Finish(p, Elem(Graft(tasks[p].h,
                                          PywinautoAppend(InOrder(p, tasks[p].n, f)))))
  /\ UNCHANGED <<env, libreoffice_version_tuple, pc, nodes, responses>>

AxuiJoin(p) ==
  /\ pc = "running" /\ os_name = "Darwin"
  /\ p \in DOMAIN tasks /\ tasks[p].pc = "wait"
  /\ AllDone(p, tasks[p].n)
  /\ \E f \in Orders(tasks[p].n) :
       tasks' = Finish(p, Elem(Graft(tasks[p].h,
                                          AxuiAppend(InOrder(p, tasks[p].n, f)))))
  /\ UNCHANGED <<env, libreoffice_version_tuple, pc, nodes, responses>>

\* What the loop over as_completed(futures) of get_accessibility_tree
\* makes of the results of the top-level futures, handed over in some order.
RootResponse(os, results) ==
  IF HasTag(results, "exc") THEN Failure(500)
  ELSE IF os = "Darwin" THEN Ok(Graft(DESKTOP, SelectSeq2(results, "none")))
  ELSE IF HasTag(results, "none") THEN Failure(500)
  ELSE Ok(Graft(DESKTOP, results))

\* get_accessibility_tree, from the loop over the finished futures to the
\* response.  The with block is left once every future is done.
Respond ==
  /\ pc = "running"
  /\ LET n == Len(Desktop(ui).top)
     IN  /\ AllDone(<<>>, n)
         /\ \E f \in Orders(n) :
              responses' = Append(responses, RootResponse(os_name, InOrder(<<>>, n, f)))
  /\ pc' = "idle"
  /\ tasks' = <<>>
  /\ nodes' = <<>>
  /\ UNCHANGED <<env, libreoffice_version_tuple>>

Next ==
  \/ GetAccessibilityTree
  \/ \E p \in DOMAIN tasks : AtspiWorker(p)
  \/ \E p \in DOMAIN tasks : PywinautoCheck(p)
  \/ \E p \in DOMAIN tasks : PywinautoExpand(p)
  \/ \E p \in DOMAIN tasks : PywinautoJoin(p)
  \/ \E p \in DOMAIN tasks : AxuiCheck(p)
  \/ \E p \in DOMAIN tasks : AxuiExpand(p)
  \/ \E p \in DOMAIN tasks : AxuiJoin(p)
  \/ Respond

Spec == Init /\ [][Next]_vars

\* ------------------------------------------------------------ the client
\* ScreenRemoteEnv: its constructor, its getters of the VNC port and URL,
\* and close().  A value that may be None is a sequence: <<>> is None,
\* <<v>> is the value v.  The session_password argument "True" is the
\* boolean True, "" is any value that counts as false.
ServerPort == 5000
VncPort == 8006
ChromiumPort == 9222

ArgsSets ==
  [os_type : {"Ubuntu", "Windows"}, provider_type : {"docker", "aws"},
   headless : BOOLEAN, novnc_server : BOOLEAN, session_password : {"True", "", "secret"}]

\* No server: the client is explored on its own.
NoServer ==
  /\ server = "UbuntuXfce4Server" /\ os_name = "Linux" /\ ui = "buttons"
  /\ bad = {} /\ root_ok = TRUE /\ scanned = NoScan
  /\ libreoffice_version_tuple = NoVersion
  /\ pc = "idle" /\ tasks = <<>> /\ nodes = <<>> /\ responses = <<>>

RemoteInit ==
  /\ NoServer
  /\ NoHelpers
  /\ args \in ArgsSets
  /\ remote = NoRemote
  /\ provider = NoProvider
  /\ returned = <<>>

\* The port of the host a port of the container is forwarded to.
HostPort(host, port) == host * 10000 + port

\* The URL of the noVNC page, by its parts.
VncUrl(port, password) ==
  [protocol |-> "http", port |-> port, autoconnect |-> TRUE,
   password |-> IF password # "" THEN <<password>> ELSE <<>>]

\* provider.stop_emulator(): the container is stopped.
StopEmulator(p) == [p EXCEPT !.state = "stopped", !.stops = @ + 1]

\* The except clause of __init__ without the call of stop_emulator.
StartFailedLeft(p, exception) == [provider |-> p, error |-> <<exception>>]

\* except (Exception, KeyboardInterrupt) as e: self.provider.stop_emulator();
\* raise e
StartFailed(p, exception) == [provider |-> StopEmulator(p), error |-> <<exception>>]

\* ScreenRemoteEnv.__init__.  start_emulator() raises or gives the
\* container, whose ports are forwarded to ports of the host.
ScreenRemoteEnvInit ==
  /\ remote.state = "none"
  /\ LET headless == IF ~args.novnc_server THEN TRUE ELSE args.headless
         password == IF args.session_password = "True" THEN "uuid4"
                     ELSE args.session_password
         ports == IF args.novnc_server THEN {ServerPort, VncPort, ChromiumPort}
                  ELSE {ServerPort, ChromiumPort}
     IN  IF args.os_type # "Ubuntu" \/ args.provider_type # "docker"
           THEN /\ remote' = [remote EXCEPT !.state = "raised",
                                             !.error = <<"NotImplementedError">>]
                /\ UNCHANGED provider
         ELSE \E started \in BOOLEAN, host \in {1, 2},
                 exception \in {"Exception", "KeyboardInterrupt"} :
                IF ~started
                  THEN LET failed == StartFailed([provider EXCEPT !.state = "failed",
                                                    !.ports = ports, !.starts = @ + 1,
                                                    !.raised = <<exception>>], exception)
                       IN  /\ host = 1
                           /\ provider' = failed.provider
                           /\ remote' = [remote EXCEPT !.state = "raised",
                                                       !.error = failed.error]
                ELSE LET vnc_port == IF ~headless THEN <<HostPort(host, VncPort)>>
                                     ELSE <<>>
                     IN  /\ exception = "Exception"
                         /\ provider' = [provider EXCEPT !.state = "started",
                                                         !.ports = ports, !.host = host,
                                                         !.starts = @ + 1]
                         /\ remote' =
                              [state |-> "ready", headless |-> headless,
                               session_password |-> password, vnc_port |-> vnc_port,
                               vnc_url |-> IF args.novnc_server
                                             THEN <<VncUrl(vnc_port, password)>>
                                           ELSE <<>>,
                               browser |-> args.novnc_server /\ ~headless,
                               error |-> <<>>]
  /\ UNCHANGED <<args, returned>>
  /\ UNCHANGED <<server, os_name, ui, bad, root_ok, scanned, libreoffice_version_tuple,
                 pc, tasks, nodes, responses, helpers>>

\* get_vnc_port(): return self.vnc_port
GetVncPort ==
  /\ remote.state = "ready"
  /\ Len(returned) < MaxCalls
  /\ returned' = Append(returned, [call |-> "get_vnc_port", value |-> remote.vnc_port])
  /\ UNCHANGED <<args, remote, provider>>
  /\ UNCHANGED <<server, os_name, ui, bad, root_ok, scanned, libreoffice_version_tuple,
                 pc, tasks, nodes, responses, helpers>>

\* get_vnc_url(): return getattr(self, "vnc_url", None)
GetVncUrl ==
  /\ remote.state = "ready"
  /\ Len(returned) < MaxCalls
  /\ returned' = Append(returned, [call |-> "get_vnc_url", value |-> remote.vnc_url])
  /\ UNCHANGED <<args, remote, provider>>
  /\ UNCHANGED <<server, os_name, ui, bad, root_ok, scanned, libreoffice_version_tuple,
                 pc, tasks, nodes, responses, helpers>>

\* close(): no certificate file is kept; the provider is stopped.
Close ==
  /\ remote.state = "ready"
  /\ remote' = [remote EXCEPT !.state = "closed"]
  /\ provider' = [provider EXCEPT !.state = "stopped", !.stops = @ + 1]
  /\ UNCHANGED <<args, returned>>
  /\ UNCHANGED <<server, os_name, ui, bad, root_ok, scanned, libreoffice_version_tuple,
                 pc, tasks, nodes, responses, helpers>>

RemoteNext ==
  \/ ScreenRemoteEnvInit
  \/ GetVncPort
  \/ GetVncUrl
  \/ Close

RemoteSpec == RemoteInit /\ [][RemoteNext]_vars

\* The variables of the server and of a capture.
capture == <<server, os_name, ui, bad, root_ok, scanned, libreoffice_version_tuple,
             pc, tasks, nodes, responses>>

\* ------------------------------------------------------------ the Sandbox
\* The Sandbox client once constructed: the provider is started, the
\* session password is one of two fresh values, no Playwright is running.
\* The certificate file exists when auto_ssl generated one.
RETRY_TIMES == 10

SandboxInit ==
  /\ NoServer
  /\ role = <<>> /\ tag = <<>> /\ waiter = NoWaiter
  /\ NoRecording
  /\ shell = <<>> /\ handled = <<>>
  /\ args = DefaultArgs
  /\ remote = NoRemote
  /\ provider = [state |-> "started", ports |-> {ServerPort, VncPort, ChromiumPort},
                 host |-> 1, starts |-> 1, stops |-> 0, raised |-> <<>>]
  /\ returned = <<>>
  /\ \E password \in {"uuid4a", "uuid4b"}, cert \in BOOLEAN :
       sandbox = [state |-> "ready", session_password |-> password,
                  playwright |-> "None", ssl_cert_file |-> cert]
  /\ wire = <<>>

\* _make_request with the caller's headers left as they are when given.
HeadersKept(kwargs) ==
  IF "headers" \notin DOMAIN kwargs
    THEN ("X-Session-Password" :> sandbox.session_password)
  ELSE kwargs.headers

\* if "headers" not in kwargs: kwargs["headers"] = {}
\* kwargs["headers"]["X-Session-Password"] = self.session_password
Headers(kwargs) ==
  ("X-Session-Password" :> sandbox.session_password) @@
  (IF "headers" \notin DOMAIN kwargs THEN [k \in {} |-> ""] ELSE kwargs.headers)

\* An attempt fails when requests.request raised or the status is >= 400.
Failed(status) == status = 0 \/ status >= 400

\* One attempt of _make_request: the request sent, the status of its
\* response (0 when requests.request raised) and what the attempt did with
\* it: it returned the response or raised.
Sent(endpoint, kwargs, status) ==
  [endpoint |-> endpoint, headers |-> Headers(kwargs),
   params |-> IF "params" \in DOMAIN kwargs THEN kwargs.params ELSE <<>>,
   status |-> status,
   outcome |-> IF Failed(status) THEN "raised" ELSE "returned"]

\* @retry(retry_times=10): the attempts made when the first `fails` of them
\* fail with status `code`: the call is repeated until one attempt does not
\* raise, RETRY_TIMES times at most.
Attempts(endpoint, kwargs, fails, code) ==
  [i \in 1..(IF fails >= RETRY_TIMES THEN RETRY_TIMES ELSE fails + 1) |->
     Sent(endpoint, kwargs, IF i <= fails THEN code ELSE 200)]

\* What _make_request gives in the end: the response of the last attempt,
\* or the exception of the last attempt.
MakeRequest(attempts) ==
  IF attempts[Len(attempts)].outcome = "raised"
    THEN [raised |-> <<"Exception">>, response |-> <<>>]
  ELSE [raised |-> <<>>, response |-> <<attempts[Len(attempts)].status>>]


Outcome(call, raised, value) == [call |-> call, raised |-> raised, value |-> value]

\* execute_command.  `response` is bound only when _make_request returned;
\* the except clause reads response.status_code.
SandboxExecuteCommand ==
  /\ sandbox.state = "ready"
  /\ Len(returned) < MaxSandboxCalls
  /\ \E fails \in {0, 1, RETRY_TIMES}, code \in {0, 404, 500}, valid \in BOOLEAN :
       LET attempts == Attempts("/execute", [headers |-> ("Content-Type" :> "application/json")], fails, code)
           made == MakeRequest(attempts)
       IN  /\ fails = 0 => code = 0
           /\ made.raised # <<>> => valid
           /\ wire' = wire \o attempts
           /\ returned' = Append(returned,
                IF made.raised # <<>>
                  THEN Outcome("execute_command", <<"UnboundLocalError">>, <<>>)
                ELSE IF valid
                  THEN Outcome("execute_command", <<>>,
                               <<[status |-> "success", returncode |-> 0]>>)
                ELSE Outcome("execute_command", <<>>,
                             <<[status |-> "error", returncode |-> made.response[1]]>>))
  /\ UNCHANGED <<args, remote, provider, sandbox, shell, handled>>
  /\ UNCHANGED <<capture, role, tag, waiter, recording>>

\* _chrome_open_tabs_setup.  Playwright is started when there is none;
\* connect_over_cdp gives a browser, gives nothing, or raises at each of its
\* 15 attempts, after which Playwright is stopped and the exception raised
\* with self._playwright left as it is.
ChromeOpenTabsSetup ==
  /\ sandbox.state = "ready"
  /\ Len(returned) < MaxSandboxCalls
  /\ \E connect \in {"browser", "nothing", "raise"} :
       LET started == IF sandbox.playwright = "None" THEN "started"
                      ELSE sandbox.playwright
       IN  \* a Playwright that was stopped cannot connect
           /\ started = "stopped" => connect = "raise"
           /\ sandbox' = [sandbox EXCEPT !.playwright =
                            CASE connect = "browser" -> started
                              [] connect = "nothing" -> "None"
                              [] connect = "raise" -> "stopped"]
           /\ returned' = Append(returned,
                Outcome("_chrome_open_tabs_setup",
                        IF connect = "raise" THEN <<"Exception">> ELSE <<>>, <<>>))
  /\ UNCHANGED <<args, remote, provider, wire, shell, handled>>
  /\ UNCHANGED <<capture, role, tag, waiter, recording>>

\* close(): self._playwright.stop() when there is a Playwright, which may
\* raise; then the certificate file is removed and the provider stopped.
SandboxClose ==
  /\ sandbox.state = "ready"
  /\ Len(returned) < MaxSandboxCalls
  /\ \E stop_raises \in BOOLEAN :
       /\ sandbox.playwright = "None" => ~stop_raises
       /\ IF stop_raises
            THEN /\ returned' = Append(returned, Outcome("close", <<"Exception">>, <<>>))
                 /\ UNCHANGED <<sandbox, provider>>
          ELSE /\ sandbox' = [sandbox EXCEPT !.state = "closed", !.ssl_cert_file = FALSE,
                                 !.playwright = IF @ = "None" THEN @ ELSE "stopped"]
               /\ provider' = [provider EXCEPT !.state = "stopped", !.stops = @ + 1]
               /\ returned' = Append(returned, Outcome("close", <<>>, <<>>))
  /\ UNCHANGED <<args, remote, wire, shell, handled>>
  /\ UNCHANGED <<capture, role, tag, waiter, recording>>

\* The query parameters requests sends: those that are not None.
Params(x, y) ==
  (IF x # <<>> THEN ("x" :> x[1]) ELSE <<>>) @@ (IF y # <<>> THEN ("y" :> y[1]) ELSE <<>>)

\* left_click(x, y): the request carries no headers of the caller, and the
\* exception of _make_request is not caught.
SandboxLeftClick ==
  /\ sandbox.state = "ready"
  /\ Len(returned) < MaxSandboxCalls
  /\ \E x \in {<<>>, <<0>>, <<7>>}, fails \in {0, 1, RETRY_TIMES}, code \in {0, 404, 500} :
       LET attempts == Attempts("/left_click", [params |-> Params(x, x)], fails, code)
       IN  /\ fails = 0 => code = 0
           /\ wire' = wire \o attempts
           /\ returned' = Append(returned,
                Outcome("left_click", MakeRequest(attempts).raised, <<>>))
  /\ UNCHANGED <<args, remote, provider, sandbox, shell, handled>>
  /\ UNCHANGED <<capture, role, tag, waiter, recording>>

SandboxNext ==
  \/ SandboxExecuteCommand
  \/ SandboxLeftClick
  \/ ChromeOpenTabsSetup
  \/ SandboxClose

SandboxSpec == SandboxInit /\ [][SandboxNext]_vars

\* ------------------------------------------------------------ the handlers
\* execute_command, the clicks and get_terminal_output of a server.
HandlerInit ==
  /\ NoClient
  /\ server \in {"UbuntuXfce4Server", "DesktopServer"}
  /\ os_name \in {"Linux", "Windows", "Darwin"}
  /\ server = "UbuntuXfce4Server" => os_name = "Linux"
  /\ ui = "buttons" /\ bad = {} /\ root_ok = TRUE /\ scanned = NoScan
  /\ libreoffice_version_tuple = NoVersion
  /\ pc = "idle" /\ tasks = <<>> /\ nodes = <<>> /\ responses = <<>>
  /\ role = <<>> /\ tag = <<>> /\ waiter = NoWaiter
  /\ NoRecording
  /\ NoCalls

\* retry_times: int = 3
RETRIES == 3

\* A command as CommandRequest holds it: a list of arguments or one string.
List(argv) == [list |-> TRUE, argv |-> argv]
Str(argv) == [list |-> FALSE, argv |-> argv]

\* class CommandRequest: the fields it declares and what post_init makes of
\* command (shlex.split of a string when shell is false).
CommandRequest(command, sh) ==
  [command |-> IF command.argv = <<>> /\ sh THEN Str(<<>>)
               ELSE IF ~command.list /\ ~sh THEN List(command.argv)
               ELSE command,
   shell |-> sh]

\* How a run of execute_command ends.
Raises(exception, argv) ==
  [argv |-> argv, background |-> FALSE, attempts |-> 0,
   raised |-> <<exception>>, result |-> <<>>]
Returns(argv, background, attempts, status, returncode) ==
  [argv |-> argv, background |-> background, attempts |-> attempts, raised |-> <<>>,
   result |-> <<[status |-> status, returncode |-> returncode]>>]

\* for i in range(retry_times), from attempt i on: the attempts before
\* `fails` raise, the next one ends with `returncode`.
RECURSIVE Try(_, _, _, _, _, _)
Try(i, argv, background, retry_times, fails, returncode) ==
  IF i >= retry_times THEN Returns(argv, background, i, "error", 1)
  ELSE IF i >= fails
    THEN Returns(argv, background, i + 1, "success", IF background THEN 0 ELSE returncode)
  ELSE IF i >= retry_times - 1 THEN Returns(argv, background, i + 1, "error", 1)
  ELSE Try(i + 1, argv, background, retry_times, fails, returncode)

\* execute_command of UbuntuXfce4Server: a field the request does not have
\* raises AttributeError when read.
Execute(request, retry_times, fails, returncode) ==
  IF {"background", "timeout"} \ DOMAIN request # {}
    THEN Raises("AttributeError", request.command.argv)
  ELSE IF ~request.command.list THEN Raises("AssertionError", request.command.argv)
  ELSE IF request.command.argv = <<>> THEN Raises("IndexError", <<>>)
  ELSE LET command == request.command.argv
           amp == command[Len(command)] = "&"
       IN  Try(0, IF amp THEN SubSeq(command, 1, Len(command) - 1) ELSE command,
               request.background \/ amp, retry_times, fails, returncode)

Handled(call, x, y, status) == [call |-> call, x |-> x, y |-> y, status |-> status]
Commands == {List(<<>>), List(<<"ls">>), List(<<"ls", "&">>), Str(<<"ls">>)}

\* POST /execute
ExecuteCommand ==
  /\ server = "UbuntuXfce4Server"
  /\ Len(handled) < MaxHandled
  /\ \E command \in Commands, sh \in BOOLEAN, retry_times \in 1..RETRIES,
        fails \in 0..RETRIES, returncode \in {0, 2} :
       /\ fails <= retry_times
       /\ fails = retry_times => returncode = 0
       /\ LET run == Execute(CommandRequest(command, sh), retry_times, fails, returncode)
          IN  /\ shell' = Append(shell, run @@
                                        [by |-> Len(handled) + 1,
                                         request |-> CommandRequest(command, sh),
                                         retry_times |-> retry_times, fails |-> fails,
                                         returncode |-> returncode])
              /\ handled' = Append(handled,
                   Handled("execute_command", <<>>, <<>>,
                           IF run.raised # <<>> THEN 500 ELSE 200))
  /\ UNCHANGED <<sandbox, wire>>
  /\ UNCHANGED <<capture, client, role, tag, waiter, recording>>

\* CommandRequest(command=f"xdotool mousemove --sync {x} {y}")
MouseMove(x, y) == <<"xdotool", "mousemove", "--sync", ToString(x), ToString(y)>>

\* An awaited execute_command(CommandRequest(command=...)) of a handler.
Issue(argv) ==
  Execute(CommandRequest(Str(argv), FALSE), RETRIES, 0, 0) @@ [by |-> Len(handled) + 1]

\* The body the four clicks share: if x and y: await self.move_mouse(x, y),
\* then the click command.  `together` is the test right_click begins
\* with.  A coordinate that is 0 counts as false, as None does.
Click(call, argv, x, y, together) ==
  IF together /\ (x = <<>>) # (y = <<>>)
    THEN /\ handled' = Append(handled, Handled(call, x, y, 500))
         /\ UNCHANGED shell
  ELSE LET truthy == x # <<>> /\ y # <<>> /\ x[1] # 0 /\ y[1] # 0
           moved == IF truthy THEN <<Issue(MouseMove(x[1], y[1]))>> ELSE <<>>
           clicked == Issue(argv)
       IN  IF moved # <<>> /\ moved[1].raised # <<>>
             THEN /\ shell' = shell \o moved
                  /\ handled' = Append(handled, Handled(call, x, y, 500))
           ELSE /\ shell' = shell \o moved \o <<clicked>>
                /\ handled' = Append(handled,
                     Handled(call, x, y, IF clicked.raised # <<>> THEN 500 ELSE 200))

LeftClick ==
  /\ server = "UbuntuXfce4Server"
  /\ Len(handled) < MaxHandled
  /\ \E x \in {<<>>, <<0>>, <<7>>}, y \in {<<>>, <<0>>, <<7>>} :
       Click("left_click", <<"xdotool", "click", "1">>, x, y, FALSE)
  /\ UNCHANGED <<sandbox, wire>>
  /\ UNCHANGED <<capture, client, role, tag, waiter, recording>>

DoubleClick ==
  /\ server = "UbuntuXfce4Server"
  /\ Len(handled) < MaxHandled
  /\ \E x \in {<<>>, <<0>>, <<7>>}, y \in {<<>>, <<0>>, <<7>>} :
       Click("double_click", <<"xdotool", "click", "--repeat", "2", "1">>, x, y, FALSE)
  /\ UNCHANGED <<sandbox, wire>>
  /\ UNCHANGED <<capture, client, role, tag, waiter, recording>>

RightClick ==
  /\ server = "UbuntuXfce4Server"
  /\ Len(handled) < MaxHandled
  /\ \E x \in {<<>>, <<0>>, <<7>>}, y \in {<<>>, <<0>>, <<7>>} :
       Click("right_click", <<"xdotool", "click", "3">>, x, y, TRUE)
  /\ UNCHANGED <<sandbox, wire>>
  /\ UNCHANGED <<capture, client, role, tag, waiter, recording>>

MiddleClick ==
  /\ server = "UbuntuXfce4Server"
  /\ Len(handled) < MaxHandled
  /\ \E x \in {<<>>, <<0>>, <<7>>}, y \in {<<>>, <<0>>, <<7>>} :
       Click("middle_click", <<"xdotool", "click", "2">>, x, y, FALSE)
  /\ UNCHANGED <<sandbox, wire>>
  /\ UNCHANGED <<capture, client, role, tag, waiter, recording>>

\* What leaves the try block of get_terminal_output: the response returned,
\* or the exception raised in it with its status (0 for an exception that is
\* not an HTTPException).
TerminalTry(os, reading) ==
  IF os = "Linux"
    THEN IF reading = "raise" THEN [raised |-> TRUE, status |-> 0]
         ELSE [raised |-> FALSE, status |-> 200]
  ELSE [raised |-> TRUE, status |-> 501]

\* except Exception as e: raise HTTPException(status_code=500, detail=str(e))
TerminalExcept(tried) == IF tried.raised THEN 500 ELSE tried.status

\* GET /terminal.  UbuntuXfce4Server reads the terminal whatever the
\* platform says; DesktopServer asks platform.system() first.
GetTerminalOutput ==
  /\ Len(handled) < MaxHandled
  /\ \E reading \in {"text", "none", "raise"} :
       handled' = Append(handled,
         Handled("get_terminal_output", <<>>, <<>>,
                 TerminalExcept(TerminalTry(IF server = "DesktopServer" THEN os_name
                                            ELSE "Linux", reading))))
  /\ UNCHANGED <<shell, sandbox, wire>>
  /\ UNCHANGED <<capture, client, role, tag, waiter, recording>>

HandlerNext ==
  \/ ExecuteCommand
  \/ GetTerminalOutput
  \/ LeftClick
  \/ DoubleClick
  \/ RightClick
  \/ MiddleClick

HandlerSpec == HandlerInit /\ [][HandlerNext]_vars

\* ------------------------------------------------------------ one element

\* One node of each role name is given to the constructor of the platform.
TagInit ==
  /\ NoClient
  /\ server \in {"UbuntuXfce4Server", "DesktopServer"}
  /\ os_name \in {"Linux", "Windows", "Darwin"}
  /\ server = "UbuntuXfce4Server" => os_name = "Linux"
  /\ ui = "buttons" /\ bad = {} /\ root_ok = TRUE /\ scanned = NoScan
  /\ libreoffice_version_tuple = NoVersion
  /\ pc = "idle" /\ tasks = <<>> /\ nodes = <<>> /\ responses = <<>>
  /\ role \in RoleNames
  /\ tag = <<>>
  /\ waiter = NoWaiter
  /\ NoRecording
  /\ NoCalls

\* _create_atspi_node: the element of the node.
AtspiElement ==
  /\ os_name = "Linux" /\ tag = <<>>
  /\ tag' = <<Element(AtspiTag(role))>>
  /\ UNCHANGED <<capture, client, role, waiter, recording, calls>>

\* _create_pywinauto_node: the element of the node.
PywinautoElement ==
  /\ os_name = "Windows" /\ tag = <<>>
  /\ tag' = <<Element(PywinautoTag(role))>>
  /\ UNCHANGED <<capture, client, role, waiter, recording, calls>>

\* _create_axui_node: the element of the node.
AxuiElement ==
  /\ os_name = "Darwin" /\ tag = <<>>
  /\ tag' = <<Element(AxuiTag(role))>>
  /\ UNCHANGED <<capture, client, role, waiter, recording, calls>>

TagNext ==
  \/ AtspiElement
  \/ PywinautoElement
  \/ AxuiElement

TagSpec == TagInit /\ [][TagNext]_vars

\* ------------------------------------------------------------ _wait_and_verify
\* What one attempt does: the predicate answers True, answers False, or the
\* command or the predicate raises.
Outcomes == {"true", "false", "raise"}
Scripts == UNION {[1..n -> {"false", "raise"}] : n \in 0..MaxScript}

WaitInit ==
  /\ NoClient
  /\ NoServer
  /\ role = <<>> /\ tag = <<>>
  /\ NoRecording
  /\ NoCalls
  /\ \E t \in 1..MaxTimeout, i \in 1..MaxInterval, f \in Scripts, e \in Outcomes :
       waiter = [timeout |-> t, interval |-> i, first |-> f, forever |-> e,
                 pc |-> "while", elapsed |-> 0, attempts |-> 0, value |-> <<>>]

\* while elapsed < timeout: ... else: return False
WhileTest ==
  /\ waiter.pc = "while"
  /\ waiter' = IF waiter.elapsed < waiter.timeout
                 THEN [waiter EXCEPT !.pc = "try"]
               ELSE [waiter EXCEPT !.pc = "returned", !.value = <<FALSE>>]
  /\ UNCHANGED <<capture, client, role, tag, recording, calls>>

\* try: if on_result(execute_command(cmd)): return True
\* An answer of False leaves the try and goes back to the test of the loop;
\* an exception goes to the handler.
TryCommand ==
  /\ waiter.pc = "try"
  /\ waiter.attempts < MaxAttempts
  /\ LET outcome == IF waiter.attempts < Len(waiter.first)
                      THEN waiter.first[waiter.attempts + 1]
                    ELSE waiter.forever
     IN  waiter' = [waiter EXCEPT
                      !.attempts = @ + 1,
                      !.pc = CASE outcome = "true" -> "returned"
                               [] outcome = "false" -> "while"
                               [] outcome = "raise" -> "except",
                      !.value = IF outcome = "true" THEN <<TRUE>> ELSE @]
  /\ UNCHANGED <<capture, client, role, tag, recording, calls>>

\* except Exception: time.sleep(interval); elapsed += interval
ExceptSleep ==
  /\ waiter.pc = "except"
  /\ waiter' = [waiter EXCEPT !.elapsed = @ + waiter.interval, !.pc = "while"]
  /\ UNCHANGED <<capture, client, role, tag, recording, calls>>

WaitNext ==
  \/ WhileTest
  \/ TryCommand
  \/ ExceptSleep

WaitSpec == WaitInit /\ [][WaitNext]_vars

\* ------------------------------------------------------------ recording
\* The server answers recording requests until its lifespan is left.  The
\* handlers are coroutines without an await: each runs as one step.  The
\* state of the application handed to the handlers has its attribute
\* recording_process set to None (as the lifespan of app_setup.py sets it)
\* or has no such attribute (no server class sets it).
RecordingInit ==
  /\ NoClient
  /\ NoServer
  /\ role = <<>> /\ tag = <<>> /\ waiter = NoWaiter
  /\ NoCalls
  /\ app_state \in {<<>>, ("recording_process" :> <<>>)}
  /\ recording_process = <<>>
  /\ popen = <<>>
  /\ recording_file \in BOOLEAN
  /\ replies = <<>>
  /\ lifespan = "serving"

Reply(call, status) == [call |-> call, status |-> status]
Process == [alive |-> TRUE, sigint |-> 0, waited |-> FALSE]
\* send_signal(signal.SIGINT); wait()
Interrupted(procs, pid) ==
  [procs EXCEPT ![pid] = [alive |-> FALSE, sigint |-> @.sigint + 1, waited |-> TRUE]]

\* StartRecording without the test of app.state.recording_process.
StartRecordingAgain ==
  /\ lifespan = "serving"
  /\ Len(replies) < MaxRequests
  /\ IF "recording_process" \notin DOMAIN app_state
       THEN /\ replies' = Append(replies, Reply("start_recording", 500))
            /\ UNCHANGED <<app_state, popen>>
     ELSE \E started \in BOOLEAN :
            IF ~started
              THEN /\ replies' = Append(replies, Reply("start_recording", 500))
                   /\ UNCHANGED <<app_state, popen>>
            ELSE /\ popen' = Append(popen, Process)
                 /\ app_state' = [app_state EXCEPT !.recording_process = <<Len(popen) + 1>>]
                 /\ replies' = Append(replies, Reply("start_recording", 200))
  /\ UNCHANGED <<recording_process, recording_file, lifespan>>
  /\ UNCHANGED <<capture, client, role, tag, waiter, calls>>

\* start_recording.  Reading an attribute app.state does not have raises
\* AttributeError (500); display.Display() or subprocess.Popen may raise.
StartRecording ==
  /\ lifespan = "serving"
  /\ Len(replies) < MaxRequests
  /\ IF "recording_process" \notin DOMAIN app_state
       THEN /\ replies' = Append(replies, Reply("start_recording", 500))
            /\ UNCHANGED <<app_state, popen>>
     ELSE IF app_state.recording_process # <<>>
       THEN /\ replies' = Append(replies, Reply("start_recording", 400))
            /\ UNCHANGED <<app_state, popen>>
     ELSE \E started \in BOOLEAN :
            IF ~started
              THEN /\ replies' = Append(replies, Reply("start_recording", 500))
                   /\ UNCHANGED <<app_state, popen>>
            ELSE /\ popen' = Append(popen, Process)
                 /\ app_state' = [app_state EXCEPT !.recording_process = <<Len(popen) + 1>>]
                 /\ replies' = Append(replies, Reply("start_recording", 200))
  /\ UNCHANGED <<recording_process, recording_file, lifespan>>
  /\ UNCHANGED <<capture, client, role, tag, waiter, calls>>

\* end_recording.  The file at recording_path exists afterwards if it did
\* before or if the process wrote it.
EndRecording ==
  /\ lifespan = "serving"
  /\ Len(replies) < MaxRequests
  /\ IF "recording_process" \notin DOMAIN app_state
       THEN /\ replies' = Append(replies, Reply("end_recording", 500))
            /\ UNCHANGED <<app_state, popen, recording_file>>
     ELSE IF app_state.recording_process = <<>>
       THEN /\ replies' = Append(replies, Reply("end_recording", 400))
            /\ UNCHANGED <<app_state, popen, recording_file>>
     ELSE \E written \in BOOLEAN :
            /\ popen' = Interrupted(popen, app_state.recording_process[1])
            /\ app_state' = [app_state EXCEPT !.recording_process = <<>>]
            /\ recording_file' = (recording_file \/ written)
            /\ replies' = Append(replies, Reply("end_recording",
                                                IF recording_file' THEN 200 ELSE 404))
  /\ UNCHANGED <<recording_process, lifespan>>
  /\ UNCHANGED <<capture, client, role, tag, waiter, calls>>

\* The recording process ends by itself.
ProcessExit(pid) ==
  /\ pid \in DOMAIN popen /\ popen[pid].alive
  /\ popen' = [popen EXCEPT ![pid].alive = FALSE]
  /\ UNCHANGED <<app_state, recording_process, recording_file, replies, lifespan>>
  /\ UNCHANGED <<capture, client, role, tag, waiter, calls>>

\* lifespan, after the yield: if self.recording_process: send_signal; wait
LifespanExit ==
  /\ lifespan = "serving"
  /\ lifespan' = "shutdown"
  /\ popen' = IF recording_process # <<>> THEN Interrupted(popen, recording_process[1])
              ELSE popen
  /\ UNCHANGED <<app_state, recording_process, recording_file, replies>>
  /\ UNCHANGED <<capture, client, role, tag, waiter, calls>>

RecordingNext ==
  \/ StartRecording
  \/ EndRecording
  \/ \E pid \in 1..MaxRequests : ProcessExit(pid)
  \/ LifespanExit

RecordingSpec == RecordingInit /\ [][RecordingNext]_vars

\* ------------------------------------------------------------ documents
\* The documents the captures so far returned.
Docs == {responses[i].at : i \in {j \in DOMAIN responses : responses[j].status = 200}}
Supported == os_name \in {"Linux", "Windows", "Darwin"}

IsPrefix(p, q) == Len(p) <= Len(q) /\ SubSeq(q, 1, Len(p)) = p
\* The elements of doc that have child elements.
Parents(doc) == {p \in DOMAIN doc : Append(p, 1) \in DOMAIN doc}
NumKids(doc, p) == Cardinality({q \in DOMAIN doc : Len(q) = Len(p) + 1 /\ IsPrefix(p, q)})
KidHandles(doc, p) == [i \in 1..NumKids(doc, p) |-> doc[Append(p, i)]]
\* The depth argument of the constructor call that built the element at p.
CallDepth(p) == Len(p) - 1 + EntryDepth(os_name)
\* The flag argument of the constructor call that built the element at p.
CallFlag(doc, p) ==
  LET set == {k \in 1..(Len(p) - 1) :
                NodeFlag(ui, doc[SubSeq(p, 1, k)], NoFlag) # NoFlag}
  IN  IF set = {} THEN NoFlag
      ELSE NodeFlag(ui, doc[SubSeq(p, 1, CHOOSE k \in set : \A m \in set : k <= m)],
                    NoFlag)
\* The native children of the element at p, in native enumeration order.
NativeKids(doc, p) == IF p = <<>> THEN Desktop(ui).top ELSE Children(ui, doc[p])
\* The elements whose children come from the grid scan.
GridElement(doc, p) ==
  p # <<>> /\ os_name = "Linux" /\ IsGrid(ui, doc[p], CallFlag(doc, p))
\* The native graph is a tree: no handle is listed twice among the children.
Listed(d) == {<<0, i>> : i \in 1..Len(Desktop(d).top)}
             \cup UNION {{<<g, i>> : i \in 1..Len(Desktop(d).ch[g])} : g \in DOMAIN Desktop(d).ch}
ListedHandle(d, e) == IF e[1] = 0 THEN Desktop(d).top[e[2]] ELSE Desktop(d).ch[e[1]][e[2]]
IsTree(d) == Cardinality({ListedHandle(d, e) : e \in Listed(d)}) = Cardinality(Listed(d))

\* kids keeps the order of native: it is a prefix of native, or any two of
\* its entries stand in native in the order they have in kids.
KeepsOrder(kids, native) ==
  \/ Len(kids) <= Len(native) /\ kids = SubSeq(native, 1, Len(kids))
  \/ \A i, j \in 1..Len(kids) : i < j =>
       \E a, b \in 1..Len(native) : a < b /\ native[a] = kids[i] /\ native[b] = kids[j]

\* ------------------------------------------------------------ claims

\* C1: in one capture each native handle identity is expanded into an
\* output node at most once, for every native graph.
C1_HandleOnce ==
  \A doc \in Docs : Cardinality({doc[p] : p \in DOMAIN doc}) = Cardinality(DOMAIN doc)

\* C2: when the native query of one child raises, the capture succeeds and
\* the element of every node still holds the elements of all its other
\* children, those enumerated before and those enumerated after the one
\* that failed.  Stated for a failing child below the top level, on native
\* graphs that are trees (no child is left out for having been visited).
C2_SiblingsSurvive ==
  (/\ Supported /\ root_ok /\ IsTree(ui)
   /\ bad # {} /\ \A k \in 1..Len(Desktop(ui).top) : Desktop(ui).top[k] \notin bad) =>
    \A i \in DOMAIN responses :
      /\ responses[i].status = 200
      /\ LET doc == responses[i].at
         IN  \A p \in DOMAIN doc :
               (/\ NativeKids(doc, p) # <<>>
                /\ p # <<>> => CallDepth(p) < MAX_DEPTH /\ ~GridElement(doc, p)) =>
                 LET emitted == {doc[q] : q \in {Append(p, k) : k \in 1..NumKids(doc, p)}}
                     native  == NativeKids(doc, p)
                 IN  \A k \in 1..Min(Len(native), MAX_WIDTH) :
                       native[k] \notin bad => native[k] \in emitted

\* C3: for every element, the document root included, the order of its
\* child elements is the native enumeration order of those children.
C3_NativeOrder ==
  \A doc \in Docs : \A p \in Parents(doc) :
    ~GridElement(doc, p) => KeepsOrder(KidHandles(doc, p), NativeKids(doc, p))

C5_WidthCeiling ==
  \A doc \in Docs : \A p \in DOMAIN doc : p # <<>> => p[Len(p)] <= MAX_WIDTH

C7_OnlyFatal ==
  \A i \in DOMAIN responses : responses[i].status # 200 => (~Supported \/ ~root_ok)

\* C8: when a descendant's handle equals an ancestor's, the ancestor is not
\* expanded a second time: no element has its own handle below it.
C8_NoReexpansion ==
  \A doc \in Docs : \A q \in DOMAIN doc :
    \A k \in 0..(Len(q) - 1) : doc[SubSeq(q, 1, k)] # doc[q]

\* C9: two captures taken back to back over the same UI state return the
\* same document, for every schedule of the workers.
C9_Idempotent ==
  \A i, j \in DOMAIN responses : responses[i] = responses[j]

\* C10: the child elements of a node with more than MAX_WIDTH native
\* children are exactly its first MAX_WIDTH children, in native order.
C10_FirstKept ==
  \A doc \in Docs : \A p \in DOMAIN doc :
    (/\ p # <<>>
     /\ Len(NativeKids(doc, p)) > MAX_WIDTH
     /\ CallDepth(p) < MAX_DEPTH
     /\ ~GridElement(doc, p)) =>
      KidHandles(doc, p) = SubSeq(NativeKids(doc, p), 1, MAX_WIDTH)


\* ------------------------------------------------------------ grid scans
\* The table elements of doc: the elements whose children the grid scan made.
Tables(doc) == {p \in DOMAIN doc : doc[p] < CellHandle(0) /\ GridElement(doc, p)}
\* The scan that made the children of the tables of the documents returned.
TheScan == TableScan(ui, bad, libreoffice_version_tuple)
\* The cells queried in the i-th row scanned.
RowChecks(scan, i) ==
  scan.rows[i].checks - (IF i = 1 THEN 0 ELSE scan.rows[i - 1].checks)
\* Number of rows and of columns of the window of desktop d when its showing
\* cells are the rows 0..R-1 by the columns 0..C-1.
Extent(d, k) ==
  LET on == {e[k] : e \in Desktop(d).showing}
  IN  IF on = {} THEN 0 ELSE 1 + CHOOSE m \in on : \A n \in on : n <= m
FromFirstCell(d) ==
  /\ Desktop(d).showing # {}
  /\ Desktop(d).showing = (0..(Extent(d, 1) - 1)) \X (0..(Extent(d, 2) - 1))
  /\ Extent(d, 2) < MaximumColumn(Desktop(d).version)

\* C11: for a table whose showing cells are exactly the rows 0..R-1 by the
\* columns 0..C-1, the grid scan sets column_base to 0, queries at most C+1
\* cells in each row, and gives the table exactly the R*C showing cells as
\* children, row by row.
C11_GridExact ==
  \A doc \in Docs : \A p \in Tables(doc) :
    FromFirstCell(ui) =>
      LET R == Extent(ui, 1)
          C == Extent(ui, 2)
          maxcol == MaximumColumn(libreoffice_version_tuple)
      IN  /\ TheScan.cb = 0
          /\ \A i \in 1..Len(TheScan.rows) : RowChecks(TheScan, i) <= C + 1
          /\ NumKids(doc, p) = R * C
          /\ \A i \in 1..(R * C) :
                doc[Append(p, i)] = CellHandle(((i - 1) \div C) * maxcol + ((i - 1) % C))
\* Scenario B has been captured: 10 rows of 5 cells gave 50 cell elements.
C11_Witness ==
  \E doc \in Docs : \E p \in Tables(doc) :
    ui = "sheet" /\ FromFirstCell(ui) /\ NumKids(doc, p) = 50 /\ TheScan.checks = 61


\* C12: a worker finishes its own element only when every future it
\* submitted is done, and get_accessibility_tree returns or raises only
\* when every future of the capture is done.
C12_NoTaskOutlives ==
  [][/\ \A p \in DOMAIN tasks \cap DOMAIN tasks' :
          (tasks[p].pc # "done" /\ tasks'[p].pc = "done") =>
            \A q \in KidPaths(p, tasks[p].n) : tasks[q].pc = "done"
     /\ Len(responses') > Len(responses) =>
          \A p \in DOMAIN tasks : tasks[p].pc = "done"]_vars
\* After a capture that returned a document, a worker of the next capture
\* has finished an element for which it had submitted futures.
C12_Witness ==
  /\ Docs # {}
  /\ \E p \in DOMAIN tasks : tasks[p].pc = "done" /\ tasks[p].n > 1


\* ------------------------------------------------------------ elements
\* The keys of attribute dictionary attrib in namespace ns.
KeysIn(attrib, ns) == {k \in DOMAIN attrib : k[1] = ns}
\* The native children an element is to have when no query raises.
Expected(doc, p) ==
  SubSeq(NativeKids(doc, p), 1, Min(Len(NativeKids(doc, p)), MAX_WIDTH))

\* C13: on Linux, whatever set of the optional interfaces (text, value,
\* action, image, selection) a node supports, its element is there with its
\* name and states, with the fields of exactly the interfaces it supports,
\* and with the elements of its children.
C13_OptionalOmitted ==
  os_name = "Linux" =>
    \A doc \in Docs : \A p \in DOMAIN doc \ {<<>>} :
      LET h   == doc[p]
          el  == AtspiDescribe(ui, bad, h)
          sup == Supports(ui, h)
      IN  /\ <<"", "name">> \in DOMAIN el.attrib
          /\ KeysIn(el.attrib, "st") = {"st"} \X StatesOf(ui, h)
          /\ <<"", "image">> \in DOMAIN el.attrib <=> "image" \in sup
          /\ <<"", "selection">> \in DOMAIN el.attrib <=> "selection" \in sup
          /\ KeysIn(el.attrib, "val") # {} <=> "value" \in sup
          /\ KeysIn(el.attrib, "act") # {} <=> "action" \in sup
          /\ el.text = IF "text" \in sup THEN Replaced(TextOf(ui, h)) ELSE <<>>
          /\ (/\ bad = {} /\ NativeKids(doc, p) # <<>>
              /\ CallDepth(p) < MAX_DEPTH /\ ~GridElement(doc, p)) =>
                KidHandles(doc, p) = Expected(doc, p)
\* The frame of the widgets has been captured: one element for each set of
\* optional interfaces, the widget that supports none of them included,
\* each with the element of its label.
C13_Witness ==
  /\ ui = "widgets"
  /\ \E doc \in Docs :
       /\ NumKids(doc, <<1, 1>>) = 32
       /\ \A k \in 1..32 : NumKids(doc, <<1, 1, k>>) = 1
       /\ Supports(ui, doc[<<1, 1, 1>>]) \cap Optional = {}
       /\ Supports(ui, doc[<<1, 1, 32>>]) \cap Optional = Optional


\* C14: on a host that is neither Linux, Windows nor macOS every capture is
\* answered 501 at once: no future is submitted, no visited set is made, no
\* field is written, and no document is returned.
C14_NotImplemented ==
  ~Supported =>
    /\ pc = "idle" /\ DOMAIN tasks = {} /\ DOMAIN nodes = {}
    /\ libreoffice_version_tuple = NoVersion
    /\ \A i \in DOMAIN responses : responses[i] = Failure(501)
\* Every capture allowed has been asked of a host of another kind.
C14_Witness == ~Supported /\ Len(responses) = MaxCaptures


\* The element of doc at p, as its constructor described it.
ElementAt(doc, p) == Describe(os_name, ui, bad, doc[p])
HasState(el, state) ==
  <<"st", state>> \in DOMAIN el.attrib /\ el.attrib[<<"st", state>>] = "true"
HasGeometry(el) ==
  <<"cp", "screencoord">> \in DOMAIN el.attrib \/ <<"cp", "size">> \in DOMAIN el.attrib

Constructed ==
  IF server = "DesktopServer" /\ os_name = "Linux" THEN Desktop(ui).version ELSE NoVersion

\* C16: a capture leaves every field of the server as it was: the field
\* libreoffice_version_tuple always has the value the constructor gave it.
C16_FieldsUnchanged == libreoffice_version_tuple = Constructed


\* C17: whenever the environment is headless, get_vnc_port and get_vnc_url
\* both return None, whatever the headless and novnc_server arguments were.
C17_HeadlessNoVnc ==
  remote.headless => \A i \in DOMAIN returned : returned[i].value = <<>>


RowCells(scan, i) == scan.rows[i].n - (IF i = 1 THEN 0 ELSE scan.rows[i - 1].n)
\* The rule of C19 after the i-th row scanned (row index i - 1): column_base
\* is set and the row gave no showing cell, or no showing cell has been
\* found at all and the row index has reached 500.
RowRule(scan, i) ==
  \/ scan.rows[i].cb # -1 /\ RowCells(scan, i) = 0
  \/ scan.rows[i].n = 0 /\ i - 1 >= SCAN_GIVE_UP

\* C19: the grid scan leaves the loop over the rows after a row exactly
\* when column_base is set and that row gave no showing cell at or after
\* column_base, or when no showing cell has been found at all and the row
\* index has reached 500; after every other row it scans the next row.  The
\* table's children are the cells found up to that row.
C19_RowStop ==
  \A doc \in Docs : \A p \in Tables(doc) :
    ~TheScan.exc =>
      /\ TheScan.rows # <<>>
      /\ \A i \in 1..Len(TheScan.rows) : RowRule(TheScan, i) <=> i = Len(TheScan.rows)
      /\ NumKids(doc, p) = TheScan.rows[Len(TheScan.rows)].n
\* The scrolled table has been captured: rows 0 and 1 gave nothing with
\* column_base unset, rows 2 to 4 gave cells, and row 5, hidden at
\* column_base, ended the scan although it has showing cells further right.
C19_Witness ==
  \E doc \in Docs : \E p \in Tables(doc) :
    /\ ui = "scrolled" /\ ~TheScan.exc
    /\ Len(TheScan.rows) = 6
    /\ RowCells(TheScan, 2) = 0 /\ RowCells(TheScan, 3) > 0
    /\ RowCells(TheScan, 6) = 0 /\ Showing(ui, 5, 4)
    /\ NumKids(doc, p) = 10

\* The columns of the i-th row scanned (row index i - 1) that were queried
\* and found showing.
RowShown(scan, i) ==
  {c \in scan.rows[i].from..scan.rows[i].clm : Showing(ui, i - 1, c)}
\* The rule of C20 at column c of the i-th row scanned, shown being the
\* showing columns of the row: the cell is not showing, and either a showing
\* cell has been found before it (in an earlier row, or further left in this
\* row) and column_base is set, or none has been found and c has reached 500.
ColumnRule(scan, i, shown, c) ==
  LET found == (i > 1 /\ scan.rows[i - 1].n > 0) \/ (\E s \in shown : s < c)
  IN  /\ c \notin shown
      /\ \/ found /\ scan.rows[i].cb # -1
         \/ ~found /\ c >= SCAN_GIVE_UP

\* C20: in every row the grid scan queries the columns one after the other
\* from the column the row is entered at, leaves the row at the first column
\* whose cell is not showing while a showing cell has been found and
\* column_base is set, or while none has been found and the column index has
\* reached 500, and otherwise goes on to the next column up to the last one.
C20_ColumnStop ==
  \A doc \in Docs : \A p \in Tables(doc) :
    ~TheScan.exc =>
      \A i \in 1..Len(TheScan.rows) :
        LET row   == TheScan.rows[i]
            shown == RowShown(TheScan, i)
        IN  /\ RowChecks(TheScan, i) = row.clm - row.from + 1
            /\ RowCells(TheScan, i) = Cardinality(shown)
            /\ \A c \in row.from..(row.clm - 1) : ~ColumnRule(TheScan, i, shown, c)
            /\ \/ ColumnRule(TheScan, i, shown, row.clm)
               \/ row.clm = MaximumColumn(libreoffice_version_tuple) - 1
\* The scrolled table has been captured: row 0 was given up at column 500,
\* row 2 went past the hidden columns 0 to 2 and was left at the hidden
\* column 7 after its showing cells, and row 4, entered at column_base, was
\* left at the hidden column 5.
C20_Witness ==
  \E doc \in Docs : \E p \in Tables(doc) :
    /\ ui = "scrolled" /\ ~TheScan.exc
    /\ TheScan.rows[1].from = 0 /\ TheScan.rows[1].clm = SCAN_GIVE_UP
    /\ TheScan.rows[3].from = 0 /\ TheScan.rows[3].clm = 7
    /\ RowShown(TheScan, 3) = 3..6
    /\ TheScan.rows[5].from = 3 /\ TheScan.rows[5].clm = 5

\* C21: whatever cells are showing, one grid scan makes at most
\* (500 + 1) * (500 + 1) checks of the showing state of a cell, in at most
\* 501 rows.
C21_ScanBounded ==
  \A doc \in Docs : \A p \in Tables(doc) :
    ~TheScan.exc =>
      /\ TheScan.checks <= (SCAN_GIVE_UP + 1) * (SCAN_GIVE_UP + 1)
      /\ Len(TheScan.rows) <= SCAN_GIVE_UP + 1

\* Row and column of the cell with handle h in a table of maxcol columns.
CellRow(h, maxcol) == (h - CellHandle(0)) \div maxcol
CellColumn(h, maxcol) == (h - CellHandle(0)) % maxcol

\* C22: in one grid scan column_base, once set, keeps its value: the column
\* of the first cell emitted; every row after the one that set it is entered
\* at column_base; every cell emitted is a showing cell in a column at or
\* after column_base; and the cells are emitted in row-major order.
C22_ColumnBaseOnce ==
  \A doc \in Docs : \A p \in Tables(doc) :
    ~TheScan.exc =>
      LET rows   == TheScan.rows
          kids   == KidHandles(doc, p)
          maxcol == MaximumColumn(libreoffice_version_tuple)
      IN  /\ kids = TheScan.acc
          /\ (kids = <<>>) <=> (TheScan.cb = -1)
          /\ kids # <<>> => TheScan.cb = CellColumn(kids[1], maxcol)
          /\ \A i \in 1..Len(rows) :
                /\ rows[i].cb \in {-1, TheScan.cb}
                /\ rows[i].cb = -1 <=> rows[i].n = 0
                /\ i > 1 => rows[i].from = (IF rows[i - 1].cb = -1 THEN 0 ELSE TheScan.cb)
          /\ \A k \in 1..Len(kids) :
                /\ Showing(ui, CellRow(kids[k], maxcol), CellColumn(kids[k], maxcol))
                /\ CellColumn(kids[k], maxcol) >= TheScan.cb
                /\ k > 1 => kids[k - 1] < kids[k]
\* The scrolled table has been captured: column_base was set to 3 in row 2,
\* row 3 was entered at column 3 and its showing cell in column 2 was not
\* emitted.
C22_Witness ==
  \E doc \in Docs : \E p \in Tables(doc) :
    /\ ui = "scrolled" /\ ~TheScan.exc
    /\ TheScan.cb = 3 /\ TheScan.rows[2].cb = -1 /\ TheScan.rows[3].cb = 3
    /\ TheScan.rows[4].from = 3 /\ Showing(ui, 3, 2)
    /\ CellHandle(3 * MaximumColumn(libreoffice_version_tuple) + 2)
         \notin {doc[q] : q \in DOMAIN doc}

\* The flag the element at p hands to its children if a node's own flag
\* goes before the inherited one: the flag set by the nearest of p and its
\* ancestors that sets one.
NearestFlag(doc, p) ==
  LET set == {k \in 1..Len(p) : NodeFlag(ui, doc[SubSeq(p, 1, k)], NoFlag) # NoFlag}
  IN  IF set = {} THEN NoFlag
      ELSE NodeFlag(ui, doc[SubSeq(p, 1, CHOOSE k \in set : \A m \in set : k >= m)],
                    NoFlag)

\* C23: the flag a node hands to its children is its own flag when its role
\* sets one and the inherited flag otherwise.  On Linux the flag shows in
\* the document: a table that holds the flag "calc" has the cells of the
\* grid scan as children, every other node its native children.
C23_FlagPropagates ==
  (os_name = "Linux" /\ bad = {}) =>
    \A doc \in Docs : \A p \in DOMAIN doc \ {<<>>} :
      CallDepth(p) < MAX_DEPTH =>
        KidHandles(doc, p) =
          IF NearestFlag(doc, p) = "calc" /\ RoleName(ui, doc[p]) = "table"
            THEN TableScan(ui, {}, Desktop(ui).version).acc
          ELSE SubSeq(NativeKids(doc, p), 1, Min(Len(NativeKids(doc, p)), MAX_WIDTH))

\* C24: a node reached at depth MAX_DEPTH is emitted without children and
\* none of its native children is queried: no constructor is ever called
\* at a greater depth, an element built at depth MAX_DEPTH has no child
\* element, and (where no query raises and no handle is listed twice) every
\* native child of an element built at depth MAX_DEPTH - 1 has its element.
C24_DepthCeiling ==
  /\ \A p \in DOMAIN tasks :
        /\ tasks[p].depth <= MAX_DEPTH
        /\ tasks[p].depth = MAX_DEPTH => tasks[p].n = 0
        /\ (tasks[p].depth = MAX_DEPTH /\ tasks[p].pc = "done" /\ bad = {} /\ IsTree(ui))
             => tasks[p].res = Elem(Leaf(tasks[p].h))
  /\ \A doc \in Docs : \A p \in DOMAIN doc \ {<<>>} :
        /\ CallDepth(p) <= MAX_DEPTH
        /\ CallDepth(p) = MAX_DEPTH => NumKids(doc, p) = 0
        /\ (CallDepth(p) = MAX_DEPTH - 1 /\ bad = {} /\ IsTree(ui) /\ ~GridElement(doc, p))
             => {doc[Append(p, i)] : i \in 1..NumKids(doc, p)}
                  = {NativeKids(doc, p)[i] :
                       i \in 1..(IF os_name = "Darwin" THEN Len(NativeKids(doc, p))
                                 ELSE Min(Len(NativeKids(doc, p)), MAX_WIDTH))}
\* The chain of nested handles has been captured on Windows: the handle
\* reached at depth MAX_DEPTH has its element, which has no child element
\* although the handle has a child.
C24_Witness ==
  \E doc \in Docs : \E p \in DOMAIN doc \ {<<>>} :
    /\ ui = "deep" /\ os_name = "Windows"
    /\ CallDepth(p) = MAX_DEPTH
    /\ Children(ui, doc[p]) # <<>>
    /\ NumKids(doc, p) = 0

\* The role name with its spaces made hyphens, "unknown" for the empty one.
Hyphened(r) == IF r = <<>> THEN Unknown ELSE Replace(r, " ", "-")

\* C25: on every platform the tag of an element emitted is the role name
\* with its spaces made hyphens ("unknown" for the empty role name), behind
\* a fixed prefix when that does not begin with a letter, and so begins
\* with a letter.  Role names are taken without spaces around them, and
\* the case of the letters is left aside.
C25_TagSanitised ==
  \A i \in DOMAIN tag :
    (~tag[i].raised /\ role = Strip(role)) =>
      /\ IsAlpha(tag[i].name[1])
      /\ Lower(tag[i].name) = Lower(IF IsAlpha(Hyphened(role)[1]) THEN Hyphened(role)
                                    ELSE TagPrefix \o Hyphened(role))

\* The body text of the element at p of a document returned, if it has one.
ElementText(doc, p) == Body(Describe(os_name, ui, bad, doc[p]).text)

C27_WaitBounded ==
  /\ waiter.forever # "true" =>
       /\ waiter.attempts * waiter.interval < waiter.timeout + waiter.interval
       /\ waiter.value # <<TRUE>>
  /\ waiter.value = <<TRUE>> =>
       (IF waiter.attempts <= Len(waiter.first) THEN waiter.first[waiter.attempts]
        ELSE waiter.forever) = "true"

\* A recording is in progress: app.state.recording_process holds a process.
InProgress ==
  "recording_process" \in DOMAIN app_state /\ app_state.recording_process # <<>>

Answered(call) ==
  /\ Len(replies') = Len(replies) + 1
  /\ replies'[Len(replies')].call = call
Status == replies'[Len(replies')].status
Running == {pid \in DOMAIN popen : popen[pid].alive}

\* C29: at most one recording process runs at a time; start_recording while
\* a recording is in progress is answered 400 and starts no second process.
C29_OneRecording ==
  [][/\ Cardinality(Running') <= 1
     /\ (InProgress /\ Answered("start_recording")) =>
          /\ Status = 400
          /\ popen' = popen
          /\ app_state' = app_state]_vars

C29_Witness ==
  /\ InProgress
  /\ replies # <<>>
  /\ replies[Len(replies)] = Reply("start_recording", 400)
  /\ Cardinality(Running) = 1

\* The process the recording in progress runs in.
Current == app_state.recording_process[1]

\* C30: end_recording with no recording in progress is answered 400 and
\* changes nothing; an end_recording that found a recording (200, or 404 when
\* the file is missing) has stopped the process and cleared the state, and
\* the start_recording that follows is not refused.
C30_EndRecording ==
  [][/\ (~InProgress /\ Answered("end_recording")) =>
          /\ Status = 400
          /\ UNCHANGED <<app_state, popen, recording_file>>
     /\ (InProgress /\ Answered("end_recording")) =>
          /\ Status \in {200, 404}
          /\ ~popen'[Current].alive /\ popen'[Current].sigint = 1 /\ popen'[Current].waited
          /\ ~InProgress'
     /\ (/\ replies # <<>>
         /\ replies[Len(replies)].call = "end_recording"
         /\ replies[Len(replies)].status \in {200, 404}
         /\ Answered("start_recording")) => Status # 400]_vars

\* C31: Sandbox.execute_command does not raise: when the request to
\* /execute failed after its retries, it returns a CommandResponse with
\* status ERROR.
C31_ExecuteNeverRaises ==
  \A i \in 1..Len(returned) :
    (sandbox.state # "none" /\ returned[i].call = "execute_command") =>
      /\ returned[i].raised = <<>>
      /\ returned[i].value # <<>>

\* The runs of execute_command asked for by a request to /execute with a
\* command the loop can run: a list of arguments that is not empty.
Runnable(run) ==
  /\ "request" \in DOMAIN run
  /\ run.request.command.list
  /\ run.request.command.argv # <<>>

\* C32: execute_command makes at most retry_times attempts, returns the
\* result of the first attempt that does not raise, and returns status ERROR
\* with returncode 1, without raising, when every attempt raises.
C32_ExecuteRetries ==
  \A i \in 1..Len(shell) :
    Runnable(shell[i]) =>
      /\ shell[i].attempts <= shell[i].retry_times
      /\ shell[i].raised = <<>>
      /\ shell[i].result # <<>>
      /\ IF shell[i].fails < shell[i].retry_times
           THEN /\ shell[i].attempts = shell[i].fails + 1
                /\ shell[i].result[1].status = "success"
                /\ shell[i].result[1].returncode =
                     (IF shell[i].background THEN 0 ELSE shell[i].returncode)
         ELSE /\ shell[i].attempts = shell[i].retry_times
              /\ shell[i].result[1] = [status |-> "error", returncode |-> 1]

\* The commands the handler of request i gave to execute_command, in order.
IssuedBy(i) == SelectSeq(shell, LAMBDA run : run.by = i)
Clicks == {"left_click", "double_click", "right_click", "middle_click"}

\* C33: a click asked with both x and y, 0 included, moves the mouse to
\* (x, y) before anything else is issued; a click asked with neither issues
\* the click command and no move.
C33_MoveBeforeClick ==
  \A i \in 1..Len(handled) :
    handled[i].call \in Clicks =>
      /\ (handled[i].x # <<>> /\ handled[i].y # <<>>) =>
           /\ IssuedBy(i) # <<>>
           /\ IssuedBy(i)[1].argv = MouseMove(handled[i].x[1], handled[i].y[1])
      /\ (handled[i].x = <<>> /\ handled[i].y = <<>>) =>
           /\ Len(IssuedBy(i)) = 1
           /\ IssuedBy(i)[1].argv[2] = "click"

\* C34: get_terminal_output on a platform other than Linux is answered
\* with HTTP 501.
C34_TerminalNotImplemented ==
  \A i \in 1..Len(handled) :
    (handled[i].call = "get_terminal_output" /\ os_name # "Linux") =>
      handled[i].status = 501

\* The calls of close() made so far.
Closes == {i \in 1..Len(returned) : returned[i].call = "close"}

\* C35: every call of Sandbox.close has called provider.stop_emulator,
\* whatever the state of Playwright and whether or not stopping it raised.
C35_CloseStopsProvider ==
  (sandbox.state # "none" /\ Closes # {}) =>
    /\ provider.stops = Cardinality(Closes)
    /\ provider.state = "stopped"

\* C36: when start_emulator raises while a ScreenRemoteEnv is constructed,
\* stop_emulator is called exactly once, the emulator is left stopped and the
\* constructor raises the exception start_emulator raised.
C36_StartFailureStops ==
  (remote.state = "raised" /\ provider.raised # <<>>) =>
    /\ provider.stops = 1
    /\ provider.state = "stopped"
    /\ remote.error = provider.raised

C36_Witness ==
  /\ remote.state = "raised"
  /\ provider.starts = 1
  /\ provider.raised = <<"KeyboardInterrupt">>
  /\ provider.stops = 1

\* C37: every request a Sandbox sends carries the header X-Session-Password
\* with the session password of that Sandbox, the caller's own headers
\* notwithstanding, and no attempt returns a response whose status is 400
\* or more.
C37_PasswordOnEveryRequest ==
  \A i \in 1..Len(wire) :
    /\ "X-Session-Password" \in DOMAIN wire[i].headers
    /\ wire[i].headers["X-Session-Password"] = sandbox.session_password
    /\ wire[i].status >= 400 => wire[i].outcome = "raised"

C37_Witness ==
  \E i, j \in 1..Len(wire) :
    /\ "Content-Type" \in DOMAIN wire[i].headers
    /\ wire[i].status = 500
    /\ DOMAIN wire[j].headers = {"X-Session-Password"}
    /\ wire[j].status = 200

====
